---------------------------- MODULE Spec2Model ----------------------------
(***************************************************************************)
(* A model of circuit-sim (aureus448/circuit-sim): the geometry            *)
(* enumerator list_types, the temperature expansion and the netlist        *)
(* generator of circuit_sim/circuit_sim.py, and the run dispatcher and     *)
(* result harvester of circuit_sim/analysis.py.                            *)
(*                                                                         *)
(* Python strings are sequences of one-character strings, so that          *)
(* formatting (f"{a}x{b}") and parsing (split, int) are computed and not   *)
(* assumed.                                                                *)
(***************************************************************************)
EXTENDS Integers, Sequences, FiniteSets, TLC

VARIABLES
    lt_max_cells,     \* list_types: argument max_cells (a sequence of ints)
    lt_sets_to_make,  \* list_types: argument sets_to_make (None, or a list of labels)
    lt_result,        \* list_types: the outcome of the call (status "pending" before it)
    tp_tokens,        \* the tokens the temps value of the ini file was written from
    tp_temps,         \* create_files: the temps string of one dataset
    tp_result,        \* create_files: the outcome of the expansion ("pending" before it)
    fs_dirs,          \* the shape directories that exist
    fs_files,         \* the files that exist: path |-> content
    fs_written,       \* the paths the last operation opened for writing
    gen_last,         \* the last call of create_file / create_special_file
    gen_calls,        \* the number of direct generator calls made
    cf_data_sets,     \* create_files: data_sets, the [key, temps] of data_sets.ini
    cf_pc,            \* create_files: where the call is (run, dataset, temp, shape)
    cf_temp_sets,     \* create_files: temp_sets of the current dataset
    cf_run_written,   \* the paths opened for writing since the current call began
    rs_data_name,     \* run_simulations / data_analysis: the argument data_name
    rs_commands,      \* run_simulations: commands (each the path of its .cir file)
    pl_pc,            \* the driver script: the stage it is in, and the index i of run_ltspice
    procs,            \* run_ltspice: the processes spawned, with their start times
    now,              \* the time, in tenths of a second
    pl_runs,          \* the driver script: the number of times it has been started
    da,               \* data_analysis: its local variables and where it is
    reports           \* the report files under Output/: name |-> rows

typesVars == <<lt_max_cells, lt_sets_to_make, lt_result>>
tempsVars == <<tp_tokens, tp_temps, tp_result>>
fsVars == <<fs_dirs, fs_files, fs_written>>
genVars == <<gen_last, gen_calls>>

cfVars == <<cf_data_sets, cf_pc, cf_temp_sets, cf_run_written>>

rsVars == <<rs_data_name, rs_commands, pl_pc, procs, now, pl_runs>>

daVars == <<da, reports>>

vars == <<typesVars, tempsVars, fsVars, genVars, cfVars, rsVars, daVars>>

-----------------------------------------------------------------------------
(* Bounds of the model *)

\* largest target cell count drawn for list_types
MaxCells == 10
\* longest max_cells list drawn for list_types
MaxCounts == 2
\* longest list of temps tokens drawn
MaxTokens == 2
\* the temperatures 9 .. 9+TempSpan are drawn as token values, besides 27, 30, 32, 40
TempSpan == 0
\* the number of direct calls of create_file / create_special_file
MaxCalls == 2
\* the largest num_shade / type_num drawn for a direct generator call
MaxNum == 1
\* the most datasets of a data_sets.ini
MaxDatasets == 2
\* the number of times create_files is called
MaxRuns == 2
\* the most commands of a direct run_ltspice call
MaxCommands == 2
\* the most netlists without a result file in the tree when the pipeline starts
MaxMissing == 1
\* the time at which the clock stops, in tenths of a second
MaxClock == 84
\* the most truncated result files in the tree when the pipeline starts
MaxPartial == 1
\* the number of times the driver script is started
MaxDriverRuns == 2

-----------------------------------------------------------------------------
(* Python values *)

\* no exception raised
None == "None"

\* sets_to_make: Python's None, or a list of labels (only membership and emptiness
\* of the list are used, so it is kept as a set)
NoneList == [isNone |-> TRUE, items |-> {}]
ListOf(items) == [isNone |-> FALSE, items |-> items]

Digits == <<"0", "1", "2", "3", "4", "5", "6", "7", "8", "9">>

\* f"{n}" of a non-negative int
RECURSIVE ToStr(_)
ToStr(n) ==
    IF n < 10 THEN <<Digits[n + 1]>>
    ELSE ToStr(n \div 10) \o <<Digits[(n % 10) + 1]>>

\* "".join of a sequence of strings with a separator
RECURSIVE Join(_, _)
Join(parts, sep) ==
    IF Len(parts) = 0 THEN <<>>
    ELSE IF Len(parts) = 1 THEN parts[1]
    ELSE parts[1] \o sep \o Join(Tail(parts), sep)

\* s.startswith(sep) at position k (1-based)
MatchAt(s, sep, k) ==
    /\ k + Len(sep) - 1 <= Len(s)
    /\ \A d \in 1..Len(sep) : s[k + d - 1] = sep[d]

\* sep in s
Contains(s, sep) == \E k \in 1..Len(s) : MatchAt(s, sep, k)

\* s.split(sep): left to right, non-overlapping; always at least one part
RECURSIVE SplitFrom(_, _, _, _)
SplitFrom(s, sep, k, cur) ==
    IF k > Len(s) THEN <<cur>>
    ELSE IF MatchAt(s, sep, k)
         THEN <<cur>> \o SplitFrom(s, sep, k + Len(sep), <<>>)
         ELSE SplitFrom(s, sep, k + 1, Append(cur, s[k]))

Split(s, sep) == SplitFrom(s, sep, 1, <<>>)

\* s.strip() for blanks
RECURSIVE Strip(_)
Strip(s) ==
    IF Len(s) = 0 THEN s
    ELSE IF s[1] = " " THEN Strip(Tail(s))
    ELSE IF s[Len(s)] = " " THEN Strip(SubSeq(s, 1, Len(s) - 1))
    ELSE s

DigitValue(c) == CHOOSE d \in 0..9 : Digits[d + 1] = c

IsDigit(c) == \E d \in 0..9 : Digits[d + 1] = c

RECURSIVE DigitsValue(_)
DigitsValue(s) ==
    IF Len(s) = 0 THEN 0
    ELSE 10 * DigitsValue(SubSeq(s, 1, Len(s) - 1)) + DigitValue(s[Len(s)])

\* int(s) of a str: blanks are stripped, then an optional sign and decimal digits;
\* anything else raises ValueError
IntOk(s) ==
    LET t == Strip(s)
        u == IF Len(t) > 0 /\ t[1] \in {"+", "-"} THEN Tail(t) ELSE t
    IN  /\ Len(u) > 0
        /\ \A k \in 1..Len(u) : IsDigit(u[k])

Int_(s) ==
    LET t == Strip(s)
        neg == Len(t) > 0 /\ t[1] = "-"
        u == IF Len(t) > 0 /\ t[1] \in {"+", "-"} THEN Tail(t) ELSE t
    IN  IF neg THEN 0 - DigitsValue(u) ELSE DigitsValue(u)

\* pd.concat / the concatenation of a list of lists
RECURSIVE Concat(_)
Concat(seqs) == IF Len(seqs) = 0 THEN <<>> ELSE seqs[1] \o Concat(Tail(seqs))

\* [x for x in range(lo, hi)]
RECURSIVE Range(_, _)
Range(lo, hi) == IF lo >= hi THEN <<>> ELSE <<lo>> \o Range(lo + 1, hi)


-----------------------------------------------------------------------------
(* list_types: the geometry enumerator (circuit_sim.py, 62-88) *)

\* f"{cellA}x{cellB}"
Label(cellA, cellB) == ToStr(cellA) \o <<"x">> \o ToStr(cellB)

\* the allow-list create_files passes to list_types
AllowList ==
    { <<"1", "x", "1", "0">>, <<"2", "x", "4">>, <<"2", "x", "5">>,
      <<"3", "x", "3">>, <<"4", "x", "2">>, <<"5", "x", "2">>,
      <<"1", "0", "x", "1">> }

\* the target cell counts create_files passes to list_types
FileCounts == <<8, 9, 10>>

\* [x for x in range(1, i + 1) if (i % x == 0 and x <= i)]
solar_cell(i) == SelectSeq(Range(1, i + 1), LAMBDA x : i % x = 0 /\ x <= i)

\* a variant of PairStep that appends every factor pair, allow-listed or not
PairStep_NoFilter(i, cellA, cellB, sets_to_make, acc) ==
    IF acc.raised # None THEN acc
    ELSE IF cellA = cellB /\ cellA * cellB # i THEN acc
    ELSE IF cellA * cellB = i
         THEN [acc EXCEPT !.sets = Append(@, <<cellA, cellB>>)]
         ELSE acc

\* the body of the two inner loops for one (cellA, cellB); acc is the state of the
\* call: the exception raised so far (None when none) and the list sets.
\* `x not in sets_to_make` raises TypeError when sets_to_make is None, and
\* `... and sets_to_make` is false for an empty list.
PairStep(i, cellA, cellB, sets_to_make, acc) ==
    IF acc.raised # None THEN acc
    ELSE IF cellA = cellB /\ cellA * cellB # i THEN acc
    ELSE IF cellA * cellB = i
         THEN IF sets_to_make.isNone THEN [acc EXCEPT !.raised = "TypeError"]
              ELSE IF /\ Label(cellA, cellB) \notin sets_to_make.items
                      /\ sets_to_make.items # {}
                   THEN acc
                   ELSE [acc EXCEPT !.sets = Append(@, <<cellA, cellB>>)]
         ELSE acc

\* for cellB in solar_cell
RECURSIVE LoopCellB(_, _, _, _, _, _)
LoopCellB(i, cellA, cells, k, sets_to_make, acc) ==
    IF k > Len(cells) THEN acc
    ELSE LoopCellB(i, cellA, cells, k + 1, sets_to_make,
                   PairStep(i, cellA, cells[k], sets_to_make, acc))

\* for cellA in solar_cell
RECURSIVE LoopCellA(_, _, _, _, _)
LoopCellA(i, cells, k, sets_to_make, acc) ==
    IF k > Len(cells) THEN acc
    ELSE LoopCellA(i, cells, k + 1, sets_to_make,
                   LoopCellB(i, cells[k], cells, 1, sets_to_make, acc))

\* for i in max_cells
RECURSIVE LoopMaxCells(_, _, _, _)
LoopMaxCells(max_cells, k, sets_to_make, acc) ==
    IF k > Len(max_cells) THEN acc
    ELSE LoopMaxCells(max_cells, k + 1, sets_to_make,
                      LoopCellA(max_cells[k], solar_cell(max_cells[k]), 1,
                                sets_to_make, acc))

\* list_types(max_cells, sets_to_make): status "returned" with the list sets, or
\* the name of the exception the call raises (and no list)
list_types(max_cells, sets_to_make) ==
    LET out == LoopMaxCells(max_cells, 1, sets_to_make,
                            [raised |-> None, sets |-> <<>>])
    IN  IF out.raised # None
        THEN [status |-> out.raised, sets |-> <<>>]
        ELSE [status |-> "returned", sets |-> out.sets]

-----------------------------------------------------------------------------
(* The temperature expansion of create_files (circuit_sim.py, 330-342) *)

\* temp_sets when the temps value is empty
DefaultTemps == <<27, 30, 35, 40, 45, 50>>

\* a variant of ExpandToken whose range excludes its upper end
ExpandToken_Exclusive(val) ==
    IF Contains(val, <<"-">>)
    THEN LET parts == Split(val, <<"-">>)
         IN  IF Len(parts) # 2 \/ ~IntOk(parts[1]) \/ ~IntOk(parts[2])
             THEN [raised |-> "ValueError", results |-> <<>>]
             ELSE [raised |-> None,
                   results |-> Range(Int_(parts[1]), Int_(parts[2]))]
    ELSE IF ~IntOk(val)
         THEN [raised |-> "ValueError", results |-> <<>>]
         ELSE [raised |-> None, results |-> <<Int_(val)>>]

\* a variant of ExpandToken that skips a val it cannot parse
ExpandToken_SkipsBad(val) ==
    IF Contains(val, <<"-">>)
    THEN LET parts == Split(val, <<"-">>)
         IN  IF Len(parts) # 2 \/ ~IntOk(parts[1]) \/ ~IntOk(parts[2])
             THEN [raised |-> None, results |-> <<>>]
             ELSE [raised |-> None,
                   results |-> Range(Int_(parts[1]), Int_(parts[2]) + 1)]
    ELSE IF ~IntOk(val)
         THEN [raised |-> None, results |-> <<>>]
         ELSE [raised |-> None, results |-> <<Int_(val)>>]

\* the loop body for one val of var_sets: results, or the ValueError of the
\* unpacking `lower, upper = val.split("-")` or of int()
ExpandToken(val) ==
    IF Contains(val, <<"-">>)
    THEN LET parts == Split(val, <<"-">>)
         IN  IF Len(parts) # 2 \/ ~IntOk(parts[1]) \/ ~IntOk(parts[2])
             THEN [raised |-> "ValueError", results |-> <<>>]
             ELSE [raised |-> None,
                   results |-> Range(Int_(parts[1]), Int_(parts[2]) + 1)]
    ELSE IF ~IntOk(val)
         THEN [raised |-> "ValueError", results |-> <<>>]
         ELSE [raised |-> None, results |-> <<Int_(val)>>]

\* for val in var_sets: temp_sets += results
RECURSIVE LoopVarSets(_, _, _)
LoopVarSets(var_sets, k, temp_sets) ==
    IF k > Len(var_sets) THEN [status |-> "returned", temp_sets |-> temp_sets]
    ELSE LET r == ExpandToken(var_sets[k])
         IN  IF r.raised # None THEN [status |-> r.raised, temp_sets |-> <<>>]
             ELSE LoopVarSets(var_sets, k + 1, temp_sets \o r.results)

\* lines 331-342: temp_sets of one dataset's temps value
ExpandTemps(temps) ==
    IF temps = <<>> THEN [status |-> "returned", temp_sets |-> DefaultTemps]
    ELSE LoopVarSets(Split(temps, <<",", " ">>), 1, <<>>)


-----------------------------------------------------------------------------
(* The file system and the netlist generator (circuit_sim.py, 91-305) *)

\* a shape directory Output/<high>-<low>/Temp<temp>/<row>x<col>
Dir(high, low, temp, row, col) ==
    [high |-> high, low |-> low, temp |-> temp, row |-> row, col |-> col]

\* the path f"{file_path}/{name}"
Path(file_path, name) == [dir |-> file_path, name |-> name]

\* f"{row}x{col}_{num_shade}_Shading.cir"
ShadingName(row, col, num_shade) ==
    ToStr(row) \o <<"x">> \o ToStr(col) \o <<"_">> \o ToStr(num_shade)
        \o <<"_", "S", "h", "a", "d", "i", "n", "g", ".", "c", "i", "r">>

\* file_type.capitalize()
Capitalize(file_type) ==
    IF file_type = "open" THEN <<"O", "p", "e", "n">>
    ELSE <<"S", "h", "o", "r", "t">>

\* f"{row}x{col}_{type_num}_{file_type.capitalize()}.cir"
SpecialName(row, col, type_num, file_type) ==
    ToStr(row) \o <<"x">> \o ToStr(col) \o <<"_">> \o ToStr(type_num)
        \o <<"_">> \o Capitalize(file_type) \o <<".", "c", "i", "r">>

LibName == <<"c", "e", "l", "l", "_", "2", ".", "l", "i", "b">>

\* what a netlist holds: the arguments its text was written from (the text itself
\* is a function of them)
Netlist(kind, row, col, num, full_volt, shade_volt, temp) ==
    [kind |-> kind, row |-> row, col |-> col, num |-> num,
     full |-> full_volt, shade |-> shade_volt, temp |-> temp]

\* the content of cell_2.lib
LibContent == Netlist("lib", 0, 0, 0, 0, 0, 0)

\* os.path.exists(path)
Exists(files, path) == path \in DOMAIN files

\* with open(path, "w+") as f: f.write(...)
WriteFile(files, path, content) == (path :> content) @@ files

\* a variant of create_file without the check of lines 117-122
create_file_NoCheck(files, dirs, file_path, row, col, num_shade, full_volt, shade_volt, temp) ==
    LET path == Path(file_path, ShadingName(row, col, num_shade))
    IN  IF file_path \notin dirs
        THEN [files |-> files, written |-> {}, status |-> "FileNotFoundError"]
        ELSE [files |-> WriteFile(files, path,
                            Netlist("shading", row, col, num_shade,
                                    full_volt, shade_volt, temp)),
              written |-> {path}, status |-> "written"]

\* create_file: the files after the call, the paths it opened for writing, and how
\* it ended (open() raises FileNotFoundError when the directory is missing)
create_file(files, dirs, file_path, row, col, num_shade, full_volt, shade_volt, temp) ==
    LET path == Path(file_path, ShadingName(row, col, num_shade))
    IN  IF Exists(files, path)
        THEN [files |-> files, written |-> {}, status |-> "skipped"]
        ELSE IF file_path \notin dirs
        THEN [files |-> files, written |-> {}, status |-> "FileNotFoundError"]
        ELSE [files |-> WriteFile(files, path,
                            Netlist("shading", row, col, num_shade,
                                    full_volt, shade_volt, temp)),
              written |-> {path}, status |-> "written"]

\* a variant of create_special_file without the check of lines 218-225
create_special_file_NoCheck(files, dirs, file_path, row, col, full_volt, temp, file_type, type_num) ==
    LET path == Path(file_path, SpecialName(row, col, type_num, file_type))
    IN  IF file_path \notin dirs
        THEN [files |-> files, written |-> {}, status |-> "FileNotFoundError"]
        ELSE [files |-> WriteFile(files, path,
                            Netlist(file_type, row, col, type_num, full_volt, 0, temp)),
              written |-> {path}, status |-> "written"]

\* create_special_file, as create_file
create_special_file(files, dirs, file_path, row, col, full_volt, temp, file_type, type_num) ==
    LET path == Path(file_path, SpecialName(row, col, type_num, file_type))
    IN  IF Exists(files, path)
        THEN [files |-> files, written |-> {}, status |-> "skipped"]
        ELSE IF file_path \notin dirs
        THEN [files |-> files, written |-> {}, status |-> "FileNotFoundError"]
        ELSE [files |-> WriteFile(files, path,
                            Netlist(file_type, row, col, type_num, full_volt, 0, temp)),
              written |-> {path}, status |-> "written"]

-----------------------------------------------------------------------------
(* The text of a netlist (circuit_sim.py, 128-180 and 258-305).  A line is its
   kind, which stands for the fixed words of the line, and the words that are
   formatted into it, in the order they are written. *)

Line(kind, words) == [kind |-> kind, words |-> words]

\* f"{n:02d}"
Pad2(n) == IF n < 10 THEN <<"0">> \o ToStr(n) ELSE ToStr(n)

\* the rows for which the double 1.05 * row is not the double nearest to the
\* decimal 1.05 * row, with the digits Python writes for it after the point
InexactSweep ==
    (3 :> <<"1", "5", "0", "0", "0", "0", "0", "0", "0", "0", "0", "0", "0", "0", "0", "4">>)
    @@ (6 :> <<"3", "0", "0", "0", "0", "0", "0", "0", "0", "0", "0", "0", "0", "0", "1">>)
    @@ (7 :> <<"3", "5", "0", "0", "0", "0", "0", "0", "0", "0", "0", "0", "0", "0", "0", "5">>)
    @@ (9 :> <<"4", "5", "0", "0", "0", "0", "0", "0", "0", "0", "0", "0", "0", "0", "1">>)

\* 1.05 * row written with two decimals, as f"{1.05 * row:.2f}" would
SweepText_TwoDecimals(row) ==
    LET h == 105 * row
    IN  ToStr(h \div 100) \o <<".">> \o Pad2(h % 100)

\* f"{1.05 * row}": the shortest decimal that reads back as the double, so without
\* trailing zeros (2.1, 10.5, 21.0), and with the rounding error of the product
\* where it has one (3.1500000000000004)
SweepText(row) ==
    LET h == 105 * row
    IN  IF row \in DOMAIN InexactSweep
        THEN ToStr(h \div 100) \o <<".">> \o InexactSweep[row]
        ELSE IF h % 100 = 0 THEN ToStr(h \div 100) \o <<".", "0">>
        ELSE IF h % 10 = 0 THEN ToStr(h \div 100) \o <<".">> \o ToStr((h % 100) \div 10)
        ELSE ToStr(h \div 100) \o <<".">> \o Pad2(h % 100)

\* a variant of StartNode that writes the row before the column
StartNode_RowFirst(i, j) == ToStr(j) \o ToStr(i)

\* start = f"{i}{j}" and end = f"{i}{j + 1}" (154-155, 281-282)
StartNode(i, j) == ToStr(i) \o ToStr(j)

EndNode(i, j) == ToStr(i) \o ToStr(j + 1)

\* {end}{start}, the control node of the cell
ControlNode(i, j) == EndNode(i, j) \o StartNode(i, j)

\* a variant of LowerNode that does not ground the last cell of a column
LowerNode_NoGround(i, j, row) == EndNode(i, j)

\* {end if j != row else "0"}
LowerNode(i, j, row) == IF j # row THEN EndNode(i, j) ELSE <<"0">>

\* {start if j != 1 else "01"}
UpperNode(i, j) == IF j # 1 THEN StartNode(i, j) ELSE <<"0", "1">>

\* a variant of IsShaded that shades only the cells whose product is num_shade
IsShaded_OnlyEqual(i, j, num_shade) == (i + 1) * j = num_shade

\* a variant of IsShaded that shades one cell more
IsShaded_OneMore(i, j, num_shade) == (i + 1) * j <= num_shade + 1

\* line 164: whether the cell of column i (from 0), row j (from 1) is written shaded
IsShaded(i, j, num_shade) == (i + 1) * j <= num_shade

\* a variant of ColumnSkipped that skips one column less
ColumnSkipped_OneLess(i, col, file_type, type_num) ==
    file_type = "open" /\ i > col - type_num

\* line 276: whether column i (from 0) is left out of an open file
ColumnSkipped(i, col, file_type, type_num) ==
    file_type = "open" /\ i >= col - type_num

\* line 295: whether the cell gets a short resistor
IsShorted(i, j, row, col, file_type, type_num) ==
    file_type = "short" /\ j = row /\ i + 1 > col - type_num

\* the lines 156-161 and 283-288: the cell comment, the cell and its parameters
XcellLines(i, j, row) ==
    << Line("cell", <<Pad2(j), Pad2(i + 1)>>),
       Line("xcell", <<StartNode(i, j), EndNode(i, j), LowerNode(i, j, row),
                       UpperNode(i, j), ControlNode(i, j)>>),
       Line("params", <<>>) >>

\* the irradiance source of a cell (165-171, 291-293)
VirradLine(i, j, row, volt) ==
    Line("virrad", <<StartNode(i, j), EndNode(i, j), ControlNode(i, j),
                     LowerNode(i, j, row), ToStr(volt)>>)

\* f"r_{start}_{end} {start} 0 0.0001\n" (296)
ShortLine(i, j) ==
    Line("r", <<StartNode(i, j), EndNode(i, j), StartNode(i, j), <<"0">>,
                <<"0", ".", "0", "0", "0", "1">>>>)

\* f"\n*** Start of Column {i + 1:02d}\n\n" (142, 273)
ColumnHead(i) == << Line("blank", <<>>), Line("column", <<Pad2(i + 1)>>), Line("blank", <<>>) >>

\* the first lines of a file, after the line that tells its kind (129-138, 259-269)
HeadLines(row, col, count_line, temp) ==
    << Line("title", <<>>),
       Line("arrangement", <<ToStr(row), ToStr(col)>>),
       count_line,
       Line("include", <<>>),
       Line("option", <<ToStr(temp)>>) >>

\* the last lines of a file (174-180, 299-305)
TailLines(row) ==
    << Line("blank", <<>>),
       Line("vbias", <<>>),
       Line("plot", <<>>),
       Line("dc", <<SweepText(row)>>),
       Line("probe", <<>>),
       Line("end", <<>>) >>

\* the lines create_file writes (128-180)
create_file_text(row, col, num_shade, full_volt, shade_volt, temp) ==
    HeadLines(row, col,
              Line("shade_count", <<ToStr(num_shade), ToStr(row * col - num_shade)>>),
              temp)
    \o Concat([c \in 1..col |->
          ColumnHead(c - 1)
          \o Concat([j \in 1..row |->
                XcellLines(c - 1, j, row)
                \o << VirradLine(c - 1, j, row,
                                 IF IsShaded(c - 1, j, num_shade) THEN shade_volt
                                 ELSE full_volt),
                      Line("blank", <<>>) >>])])
    \o TailLines(row)

\* the lines create_special_file writes (258-305)
create_special_file_text(row, col, full_volt, temp, file_type, type_num) ==
    HeadLines(row, col,
              Line(file_type \o "_count", <<ToStr(type_num), ToStr(row * col - type_num)>>),
              temp)
    \o Concat([c \in 1..col |->
          ColumnHead(c - 1)
          \o IF ColumnSkipped(c - 1, col, file_type, type_num)
             THEN << Line("skip", <<>>) >>
             ELSE Concat([j \in 1..row |->
                     XcellLines(c - 1, j, row)
                     \o << VirradLine(c - 1, j, row, full_volt) >>
                     \o (IF IsShorted(c - 1, j, row, col, file_type, type_num)
                         THEN << ShortLine(c - 1, j) >> ELSE << >>)
                     \o << Line("blank", <<>>) >>])])
    \o TailLines(row)

\* the text of a file of the tree, from what it was written from
TextOf(content) ==
    IF content.kind = "shading"
    THEN create_file_text(content.row, content.col, content.num, content.full,
                          content.shade, content.temp)
    ELSE IF content.kind \in {"open", "short"}
    THEN create_special_file_text(content.row, content.col, content.full, content.temp,
                                  content.kind, content.num)
    ELSE << >>

-----------------------------------------------------------------------------
(* The generator of the legacy script (main.py, 24-132).  Its write statements
   are those of circuit_sim.py, word for word, but for the name of a shading
   file and the element that shorts a column. *)

\* f"{row}x{col}_{shade if shade != 0 else 'No'}_Shading.cir" (main.py 25-27)
main_ShadingName(row, col, shade) ==
    ToStr(row) \o <<"x">> \o ToStr(col) \o <<"_">>
        \o (IF shade # 0 THEN ToStr(shade) ELSE <<"N", "o">>)
        \o <<"_", "S", "h", "a", "d", "i", "n", "g", ".", "c", "i", "r">>

\* f"is_{start}_{end} {start} 0 dc 0\n" (main.py 125)
main_ShortLine(i, j) ==
    Line("is", <<StartNode(i, j), EndNode(i, j), StartNode(i, j), <<"0">>, <<"0">>>>)

\* the lines create_file of main.py writes (main.py 28-76)
main_create_file_text(row, col, shade, full_val, shade_val, temp) ==
    HeadLines(row, col,
              Line("shade_count", <<ToStr(shade), ToStr(row * col - shade)>>),
              temp)
    \o Concat([c \in 1..col |->
          ColumnHead(c - 1)
          \o Concat([j \in 1..row |->
                XcellLines(c - 1, j, row)
                \o << VirradLine(c - 1, j, row,
                                 IF ((c - 1) + 1) * j <= shade THEN shade_val ELSE full_val),
                      Line("blank", <<>>) >>])])
    \o TailLines(row)

\* the lines create_special_file of main.py writes (main.py 82-132)
main_create_special_file_text(row, col, full_val, temp, type, type_num) ==
    HeadLines(row, col,
              Line(type \o "_count", <<ToStr(type_num), ToStr(row * col - type_num)>>),
              temp)
    \o Concat([c \in 1..col |->
          ColumnHead(c - 1)
          \o IF type = "open" /\ c - 1 >= col - type_num
             THEN << Line("skip", <<>>) >>
             ELSE Concat([j \in 1..row |->
                     XcellLines(c - 1, j, row)
                     \o << VirradLine(c - 1, j, row, full_val) >>
                     \o (IF type = "short" /\ j = row /\ (c - 1) + 1 > col - type_num
                         THEN << main_ShortLine(c - 1, j) >> ELSE << >>)
                     \o << Line("blank", <<>>) >>])])
    \o TailLines(row)

\* the name and the text main.py gives the file of a job
main_NameOf(content) ==
    IF content.kind = "shading"
    THEN main_ShadingName(content.row, content.col, content.num)
    ELSE SpecialName(content.row, content.col, content.num, content.kind)

main_TextOf(content) ==
    IF content.kind = "shading"
    THEN main_create_file_text(content.row, content.col, content.num, content.full,
                               content.shade, content.temp)
    ELSE main_create_special_file_text(content.row, content.col, content.full,
                                       content.temp, content.kind, content.num)

-----------------------------------------------------------------------------
(* create_files: the driver of the generator (circuit_sim.py, 308-376) *)

\* file_sets = list_types([8, 9, 10], ["1x10", "2x4", "2x5", "3x3", "4x2", "5x2", "10x1"])
file_sets == list_types(FileCounts, ListOf(AllowList)).sets

\* high, low = map(int, dataset.split("-"))
DatasetLevels(dataset) ==
    LET parts == Split(dataset, <<"-">>)
    IN  IF Len(parts) # 2 \/ ~IntOk(parts[1]) \/ ~IntOk(parts[2])
        THEN [status |-> "ValueError", high |-> 0, low |-> 0]
        ELSE [status |-> "ok", high |-> Int_(parts[1]), low |-> Int_(parts[2])]

\* lines 357-363: cell_2.lib is copied into the shape directory
CopyLib(acc, filepath) ==
    [files |-> WriteFile(acc.files, Path(filepath, LibName), LibContent),
     written |-> acc.written \cup {Path(filepath, LibName)},
     status |-> acc.status]

\* what a generator call leaves of the loop's state: an exception ends the loop
AfterCall(acc, r) ==
    [files |-> r.files, written |-> acc.written \cup r.written,
     status |-> IF r.status \in {"written", "skipped"} THEN "ok" ELSE r.status]

\* line 365: create_file(filepath, row, col, num, high, low, temp)
NumShading(acc, dirs, filepath, row, col, num, high, low, temp) ==
    AfterCall(acc, create_file(acc.files, dirs, filepath, row, col, num, high, low, temp))

\* a variant of NumOpen that makes an open file for num = col too
NumOpen_UpToCol(acc, dirs, filepath, row, col, num, high, temp) ==
    IF acc.status = "ok" /\ num > 0 /\ num <= col
    THEN AfterCall(acc, create_special_file(acc.files, dirs, filepath, row, col, high,
                                            temp, "open", num))
    ELSE acc

\* lines 367-371: the open file of num, for 0 < num < col
NumOpen(acc, dirs, filepath, row, col, num, high, temp) ==
    IF acc.status = "ok" /\ num > 0 /\ num < col
    THEN AfterCall(acc, create_special_file(acc.files, dirs, filepath, row, col, high,
                                            temp, "open", num))
    ELSE acc

\* lines 372-376: the short file of num, for 0 < num <= row * col - col
NumShort(acc, dirs, filepath, row, col, num, high, temp) ==
    IF acc.status = "ok" /\ num > 0 /\ num <= row * col - col
    THEN AfterCall(acc, create_special_file(acc.files, dirs, filepath, row, col, high,
                                            temp, "short", num))
    ELSE acc

\* for num in range(row * col + 1)
RECURSIVE LoopNum(_, _, _, _, _, _, _, _, _)
LoopNum(acc, dirs, filepath, row, col, num, high, low, temp) ==
    IF acc.status # "ok" \/ num > row * col THEN acc
    ELSE LoopNum(
             NumShort(
                 NumOpen(
                     NumShading(acc, dirs, filepath, row, col, num, high, low, temp),
                     dirs, filepath, row, col, num, high, temp),
                 dirs, filepath, row, col, num, high, temp),
             dirs, filepath, row, col, num + 1, high, low, temp)

\* lines 348-376, the body of `for row, col in file_sets` once the dataset name is
\* parsed: the directory is made, the library copied and the netlists created
CreateDir(files, dirs, high, low, temp, row, col) ==
    LET filepath == Dir(high, low, temp, row, col)
        made == dirs \cup {filepath}
        out == LoopNum(CopyLib([files |-> files, written |-> {}, status |-> "ok"],
                               filepath),
                       made, filepath, row, col, 0, high, low, temp)
    IN  [dirs |-> made, files |-> out.files, written |-> out.written,
         status |-> out.status]

-----------------------------------------------------------------------------
(* run_simulations and run_ltspice: the run dispatcher (analysis.py, 37-135) *)

\* sleep = 0.1, in tenths of a second
SleepTenths == 1

\* the 8 seconds of the timeout checks of lines 63 and 73
TimeoutTenths == 80

\* folders_to_check
FoldersToCheck ==
    { <<"1", "x", "1", "0">>, <<"2", "x", "4">>, <<"2", "x", "5">>,
      <<"1", "x", "9">>, <<"3", "x", "3">>, <<"9", "x", "1">>,
      <<"4", "x", "2">>, <<"5", "x", "2">>, <<"1", "0", "x", "1">> }

\* the name of the dataset directory of a shape directory, f"{high}-{low}"
DatasetDirName(dir) == ToStr(dir.high) \o <<"-">> \o ToStr(dir.low)

\* the name of a shape directory, f"{row}x{col}"
ShapeDirName(dir) == ToStr(dir.row) \o <<"x">> \o ToStr(dir.col)

\* s.endswith(suffix)
EndsWith(s, suffix) ==
    /\ Len(s) >= Len(suffix)
    /\ SubSeq(s, Len(s) - Len(suffix) + 1, Len(s)) = suffix

\* s.replace(old, new)
Replace(s, old, new) == Join(Split(s, old), new)

\* file.path.replace(".cir", ".raw")
RawPath(path) ==
    Path(path.dir, Replace(path.name, <<".", "c", "i", "r">>, <<".", "r", "a", "w">>))

\* a result file: complete, or truncated (being written, or left by a simulator
\* that was stopped), which the waveform parser rejects
RawContent(kind) == Netlist(kind, 0, 0, 0, 0, 0, 0)

\* a variant of Queued that queues every netlist, with or without a result file
Queued_NoRawCheck(files, data_name) ==
    { path \in DOMAIN files :
        /\ DatasetDirName(path.dir) \in data_name
        /\ ShapeDirName(path.dir) \in FoldersToCheck
        /\ EndsWith(path.name, <<"c", "i", "r">>) }

\* lines 94-124: the files run_simulations queues a command for
Queued(files, data_name) ==
    { path \in DOMAIN files :
        /\ DatasetDirName(path.dir) \in data_name
        /\ ShapeDirName(path.dir) \in FoldersToCheck
        /\ EndsWith(path.name, <<"c", "i", "r">>)
        /\ ~Exists(files, RawPath(path)) }

\* the lists that hold each element of a set once: the orders os.scandir may
\* yield the files in
Orders(S) ==
    { seq \in [1..Cardinality(S) -> S] : \A m, n \in DOMAIN seq : seq[m] = seq[n] => m = n }

\* procs.put((Popen(commands[i], startupinfo=s), time.time()))
Spawned(cmd, t) == [cmd |-> cmd, state |-> "running", started |-> t]

\* the processes of the queue that have not exited
Alive == { k \in DOMAIN procs : procs[k].state = "running" }

-----------------------------------------------------------------------------
(* data_analysis: the result harvester (analysis.py, 138-439) *)

\* a dataset directory, and none
Dataset(high, low) == [high |-> high, low |-> low]

\* a report file: f"Output/Data/{dataset}/{dataset}-{directory}.csv" ("dir"),
\* f"Output/Data/{dataset}-Shading.csv" and -Special.csv ("shading", "special"), and
\* Output/all_cell_data_shading.csv, _special.csv and _combined.csv
Report(kind, high, low, temp) == [kind |-> kind, high |-> high, low |-> low, temp |-> temp]

CombinedReports ==
    { Report("all_shading", 0, 0, 0), Report("all_special", 0, 0, 0),
      Report("all_combined", 0, 0, 0) }

\* lines 156-160, before the first dataset is scanned
DaStart(datasets) ==
    [status |-> "datasets", bad_data |-> FALSE, cell_identifier |-> 1,
     datasets_left |-> datasets, dataset |-> Dataset(0, 0),
     dirs_left |-> {}, temperature |-> 0,
     subs_left |-> {}, sub |-> <<0, 0>>, seen |-> {},
     gigantor |-> <<>>, specialdf |-> <<>>,
     temp_list |-> <<>>, temp_list_special |-> <<>>,
     dataframe_list |-> <<>>, dataframe_list_special |-> <<>>,
     nread |-> 0, read |-> Path(Dir(0, 0, 0, 0, 0), <<>>), verdict |-> "none",
     deleted |-> {}, written |-> {}]

\* the dataset directories of the tree whose name is in data_name (161-162)
DatasetDirs(dirs, data_name) ==
    { Dataset(d.high, d.low) : d \in { e \in dirs : DatasetDirName(e) \in data_name } }

\* a dataset directory that has no directory below it
DatasetDir(high, low) == Dir(high, low, 0, 0, 0)

\* the temperature directories of a dataset directory (169-172)
TempDirs(dirs, dataset) ==
    { d.temp : d \in { e \in dirs : /\ e.high = dataset.high
                                     /\ e.low = dataset.low
                                     /\ e # DatasetDir(e.high, e.low) } }

\* the shape directories of a temperature directory (189-193)
SubDirs(dirs, dataset, temperature) ==
    { <<d.row, d.col>> : d \in { e \in dirs : /\ e.high = dataset.high
                                              /\ e.low = dataset.low
                                              /\ e.temp = temperature } }

\* the result files of a shape directory (198-201)
RawFiles(files, dataset, temperature, sub) ==
    { path \in DOMAIN files :
        /\ path.dir = Dir(dataset.high, dataset.low, temperature, sub[1], sub[2])
        /\ EndsWith(path.name, <<"r", "a", "w">>) }

\* lines 203-207 and 244-250: special and type, from the file name
IsSpecial(name) == ~Contains(name, <<"S", "h", "a", "d", "i", "n", "g">>)

TypeOf(name) ==
    IF Contains(name, <<"O", "p", "e", "n">>) THEN "Open"
    ELSE IF IsSpecial(name) THEN "Short"
    ELSE "Shaded"

\* series, parallel = map(int, sub_dir.name.split("x")) (192)
ShapeOf(dir) ==
    LET parts == Split(ShapeDirName(dir), <<"x">>)
    IN  [series |-> Int_(parts[1]), parallel |-> Int_(parts[2])]

\* special_num = int(file.name.split("_")[1]) of a special file, else 0 (203-206)
SpecialNum(name) == IF IsSpecial(name) THEN Int_(Split(name, <<"_">>)[2]) ELSE 0

\* a variant of CellPower that takes one column more for open
CellPower_OneMoreOpen(i, j, series, parallel, type, special_num) ==
    LET cell_n == i * series + j
        cell_a == ToStr(i) \o ToStr(j)
        cell_b == ToStr(i) \o ToStr(j + 1)
        volt_a == IF j # 1 THEN cell_a ELSE <<"0", "1">>
        volt_b == IF cell_n < series THEN ToStr(i) \o ToStr(j + 1) ELSE <<>>
    IN  IF type = "Open" /\ (i + 1) >= parallel - special_num
        THEN [kind |-> "zero", v_in |-> <<>>, v_out |-> <<>>, cell |-> <<>>]
        ELSE [kind |-> IF Len(volt_b) > 0 THEN "difference" ELSE "single",
              v_in |-> volt_a, v_out |-> volt_b,
              cell |-> cell_a \o <<"_">> \o cell_b]

\* lines 270-329, the power of the cell of column i (from 0), row j (from 1): 0
\* for a cell of an open column; else the traces it is computed from, V(v_in),
\* V(v_out) when there is a second voltage, and Ix(cell_<a>_<b>:300):
\* (V(v_in) - V(v_out)) * Ix, or V(v_in) * Ix when there is none
CellPower(i, j, series, parallel, type, special_num) ==
    LET cell_n == i * series + j
        cell_a == ToStr(i) \o ToStr(j)
        cell_b == ToStr(i) \o ToStr(j + 1)
        volt_a == IF j # 1 THEN cell_a ELSE <<"0", "1">>
        volt_b == IF cell_n < series THEN ToStr(i) \o ToStr(j + 1) ELSE <<>>
    IN  IF type = "Open" /\ (i + 1) > parallel - special_num
        THEN [kind |-> "zero", v_in |-> <<>>, v_out |-> <<>>, cell |-> <<>>]
        ELSE [kind |-> IF Len(volt_b) > 0 THEN "difference" ELSE "single",
              v_in |-> volt_a, v_out |-> volt_b,
              cell |-> cell_a \o <<"_">> \o cell_b]

\* the columns f"Cell {cell_n} Power" of the frame of a result file (266-329)
CellPowers(path) ==
    LET shape == ShapeOf(path.dir)
    IN  [cell_n \in 1..(shape.series * shape.parallel) |->
            CellPower((cell_n - 1) \div shape.series, ((cell_n - 1) % shape.series) + 1,
                      shape.series, shape.parallel, TypeOf(path.name),
                      SpecialNum(path.name))]

\* the rows of one result file (251-331): its file, type, Solar Panel ID and the
\* power of each cell
Frame(path, cell_identifier) ==
    [file |-> path, type |-> TypeOf(path.name), id |-> cell_identifier,
     cells |-> CellPowers(path)]

\* lines 214-227: Ltspice(file.path).parse() raises FileSizeNotMatchException or
\* IndexError on a truncated file
ParseFails(content) == content.kind = "raw_partial"

\* a variant of AfterFile that keeps a corrupt file and does not set bad_data
AfterFile_KeepsCorrupt(d, files, path) ==
    IF ParseFails(files[path])
    THEN [d EXCEPT !.seen = @ \cup {path}, !.nread = @ + 1, !.read = path,
                   !.verdict = "corrupt"]
    ELSE [d EXCEPT !.seen = @ \cup {path}, !.nread = @ + 1, !.read = path,
                   !.verdict = "parsed",
                   !.gigantor = IF IsSpecial(path.name) THEN @
                                ELSE Append(@, Frame(path, d.cell_identifier)),
                   !.specialdf = IF IsSpecial(path.name)
                                 THEN Append(@, Frame(path, d.cell_identifier))
                                 ELSE @,
                   !.cell_identifier = @ + 1]

\* lines 201-345, the locals after one result file: a corrupt file is removed and
\* bad_data set; a parsed one gives a frame, appended to specialdf or gigantor
AfterFile(d, files, path) ==
    IF ParseFails(files[path])
    THEN [d EXCEPT !.seen = @ \cup {path}, !.nread = @ + 1, !.read = path,
                   !.verdict = "corrupt", !.bad_data = TRUE,
                   !.deleted = @ \cup {path}]
    ELSE [d EXCEPT !.seen = @ \cup {path}, !.nread = @ + 1, !.read = path,
                   !.verdict = "parsed",
                   !.gigantor = IF IsSpecial(path.name) THEN @
                                ELSE Append(@, Frame(path, d.cell_identifier)),
                   !.specialdf = IF IsSpecial(path.name)
                                 THEN Append(@, Frame(path, d.cell_identifier))
                                 ELSE @,
                   !.cell_identifier = @ + 1]

\* os.remove(path) of the files data_analysis has deleted
RemoveFiles(files, gone) == [p \in DOMAIN files \ gone |-> files[p]]

\* lines 346-370: pd.concat raises ValueError on an empty list; else the directory
\* report is written and the two frames appended to the lists of the dataset
AfterDir(d) ==
    IF Len(d.gigantor) = 0 \/ Len(d.specialdf) = 0
    THEN [d EXCEPT !.status = "ValueError"]
    ELSE [d EXCEPT !.status = "dirs",
                   !.temp_list = Append(@, d.gigantor),
                   !.temp_list_special = Append(@, d.specialdf),
                   !.written = @ \cup {Report("dir", d.dataset.high, d.dataset.low,
                                              d.temperature)}]

\* lines 415-429: no combined report for a degraded run; else the three reports
\* (pd.concat raises ValueError when no dataset gave a frame)
FinalReports(bad_data, dataframe_list, dataframe_list_special) ==
    IF bad_data THEN [status |-> "returned", rows |-> <<>>]
    ELSE IF Len(dataframe_list) = 0
    THEN [status |-> "ValueError", rows |-> <<>>]
    ELSE [status |-> "returned",
          rows |-> [r \in CombinedReports |->
                       IF r.kind = "all_shading" THEN Concat(dataframe_list)
                       ELSE IF r.kind = "all_special" THEN Concat(dataframe_list_special)
                       ELSE Concat(dataframe_list) \o Concat(dataframe_list_special)]]

-----------------------------------------------------------------------------
(* Inputs *)

SeqsUpTo(S, n) == UNION { [1..k -> S] : k \in 0..n }

\* the max_cells lists drawn
CountLists == SeqsUpTo(1..MaxCells, MaxCounts)

\* the labels the allow-lists are drawn from: shapes of 8, 9 and 10 cells and a
\* shape of 6 cells
LabelPool ==
    { <<"2", "x", "4">>, <<"4", "x", "2">>, <<"3", "x", "3">>,
      <<"1", "x", "1", "0">>, <<"2", "x", "3">> }

\* the sets_to_make values drawn: the default None, every list over LabelPool
\* (the empty one included) and the list create_files passes
AllowLists ==
    {NoneList} \cup { ListOf(items) : items \in SUBSET LabelPool }
               \cup {ListOf(AllowList)}

\* the temperatures the temps tokens are drawn from
TempVals == {27, 30, 32, 40} \cup (9..(9 + TempSpan))

\* a temps token: a single integer lo, or the range lo-hi
Tokens ==
    { [range |-> FALSE, lo |-> n, hi |-> n] : n \in TempVals }
    \cup { [range |-> TRUE, lo |-> t[1], hi |-> t[2]] : t \in TempVals \X TempVals }

\* the text of a token in the ini file
TokenText(tok) ==
    IF tok.range THEN ToStr(tok.lo) \o <<"-">> \o ToStr(tok.hi) ELSE ToStr(tok.lo)

\* the temps value of the ini file: the tokens separated by ", "
TempsText(toks) ==
    Join([k \in 1..Len(toks) |-> TokenText(toks[k])], <<",", " ">>)

-----------------------------------------------------------------------------
(* The calls of the enumerator and of the temperature expansion *)

\* the directories, shapes and values the direct calls draw their arguments from
GenDirs == { Dir(1000, 900, 27, 2, 2), Dir(1000, 900, 30, 2, 2) }
GenShapes == { <<2, 2>>, <<1, 2>> }
GenTemps == {27, 30}
GenFull == {1000}
GenShade == {900}

NoCall == [op |-> "none", path |-> Path(Dir(0, 0, 0, 0, 0), <<>>), status |-> "none",
           content |-> LibContent]

FsEmpty ==
    /\ fs_dirs = {}
    /\ fs_files = <<>>
    /\ fs_written = {}

GenIdle ==
    /\ gen_last = NoCall
    /\ gen_calls = 0

\* a dataset key of data_sets.ini, "<full>-<shade>"
DatasetKey(high, low) == ToStr(high) \o <<"-">> \o ToStr(low)

DatasetKeys == { DatasetKey(1000, 900), DatasetKey(1000, 800) }

\* temps values that cannot be parsed: "27, x", "30-x" and "27-30-32"
MalformedTemps ==
    { <<"2", "7", ",", " ", "x">>, <<"3", "0", "-", "x">>,
      <<"2", "7", "-", "3", "0", "-", "3", "2">> }

\* the temps values of the ini files drawn: "27", "30-32", the empty value and
\* the values that cannot be parsed
TempsChoices ==
    { TempsText(<<[range |-> FALSE, lo |-> 27, hi |-> 27]>>),
      TempsText(<<[range |-> TRUE, lo |-> 30, hi |-> 32]>>),
      <<>> } \cup MalformedTemps

\* the data_sets lists drawn: up to MaxDatasets sections with distinct keys
DataSetLists ==
    { ds \in SeqsUpTo([key : DatasetKeys, temps : TempsChoices], MaxDatasets) :
        \A m, n \in 1..Len(ds) : ds[m].key = ds[n].key => m = n }

CfIdle ==
    /\ cf_data_sets = <<>>
    /\ cf_pc = [status |-> "idle", run |-> 0, completed |-> 0, d |-> 0, t |-> 0, s |-> 0]
    /\ cf_temp_sets = <<>>
    /\ cf_run_written = {}

\* the netlists of the trees the dispatcher and the harvester are run on: two
\* shading netlists and an open netlist of one dataset, a shading and a short
\* netlist of another
TreeDirs == { Dir(1000, 900, 27, 2, 4), Dir(1000, 800, 27, 2, 4) }

TreeNetlists ==
    { Path(Dir(1000, 900, 27, 2, 4), ShadingName(2, 4, 0)),
      Path(Dir(1000, 900, 27, 2, 4), ShadingName(2, 4, 1)),
      Path(Dir(1000, 900, 27, 2, 4), SpecialName(2, 4, 1, "open")),
      Path(Dir(1000, 800, 27, 2, 4), ShadingName(2, 4, 0)),
      Path(Dir(1000, 800, 27, 2, 4), SpecialName(2, 4, 1, "short")) }

\* the content create_files gave a netlist of the tree
TreeContent(path) ==
    IF path.name = ShadingName(path.dir.row, path.dir.col, 0)
    THEN Netlist("shading", path.dir.row, path.dir.col, 0,
                 path.dir.high, path.dir.low, path.dir.temp)
    ELSE IF path.name = ShadingName(path.dir.row, path.dir.col, 1)
    THEN Netlist("shading", path.dir.row, path.dir.col, 1,
                 path.dir.high, path.dir.low, path.dir.temp)
    ELSE IF path.name = SpecialName(path.dir.row, path.dir.col, 1, "open")
    THEN Netlist("open", path.dir.row, path.dir.col, 1, path.dir.high, 0, path.dir.temp)
    ELSE Netlist("short", path.dir.row, path.dir.col, 1, path.dir.high, 0, path.dir.temp)

\* the trees drawn: every netlist of TreeNetlists, each with a complete result
\* file, a truncated one or none, at most MaxMissing of them with none and at
\* most MaxPartial with a truncated one
Trees ==
    { [p \in TreeNetlists \cup { RawPath(q) : q \in DOMAIN raws } |->
          IF p \in TreeNetlists THEN TreeContent(p)
          ELSE RawContent(raws[CHOOSE q \in DOMAIN raws : RawPath(q) = p])] :
      raws \in { r \in UNION { [S -> {"raw", "raw_partial"}] : S \in SUBSET TreeNetlists } :
                   /\ Cardinality(TreeNetlists \ DOMAIN r) <= MaxMissing
                   /\ Cardinality({ q \in DOMAIN r : r[q] = "raw_partial" })
                          <= MaxPartial } }

\* the data_name lists drawn
DataNames == { {DatasetKey(1000, 900)}, {DatasetKey(1000, 900), DatasetKey(1000, 800)} }

RsIdle ==
    /\ rs_data_name = {}
    /\ rs_commands = <<>>
    /\ pl_pc = [stage |-> "idle", i |-> 0]
    /\ procs = <<>>
    /\ now = 0
    /\ pl_runs = 0

DaIdle ==
    /\ da = [DaStart({}) EXCEPT !.status = "idle"]
    /\ reports = <<>>

TypesIdle ==
    /\ lt_max_cells = <<>>
    /\ lt_sets_to_make = NoneList
    /\ lt_result = [status |-> "idle", sets |-> <<>>]

TempsIdle ==
    /\ tp_tokens = <<>>
    /\ tp_temps = <<>>
    /\ tp_result = [status |-> "idle", temp_sets |-> <<>>]

InitTypes ==
    /\ lt_max_cells \in CountLists
    /\ lt_sets_to_make \in AllowLists
    /\ lt_result = [status |-> "pending", sets |-> <<>>]
    /\ TempsIdle
    /\ FsEmpty
    /\ GenIdle
    /\ CfIdle
    /\ RsIdle
    /\ DaIdle

InitTemps ==
    /\ tp_tokens \in SeqsUpTo(Tokens, MaxTokens)
    /\ tp_temps = TempsText(tp_tokens)
    /\ tp_result = [status |-> "pending", temp_sets |-> <<>>]
    /\ TypesIdle
    /\ FsEmpty
    /\ GenIdle
    /\ CfIdle
    /\ RsIdle
    /\ DaIdle

\* sets = list_types(max_cells, sets_to_make)
ListTypesCall ==
    /\ lt_result.status = "pending"
    /\ lt_result' = list_types(lt_max_cells, lt_sets_to_make)
    /\ UNCHANGED <<lt_max_cells, lt_sets_to_make, tempsVars, fsVars, genVars, cfVars, rsVars, daVars>>

\* lines 331-342 of create_files for one dataset
ExpandTempsCall ==
    /\ tp_result.status = "pending"
    /\ tp_result' = ExpandTemps(tp_temps)
    /\ UNCHANGED <<typesVars, tp_tokens, tp_temps, fsVars, genVars, cfVars, rsVars, daVars>>

-----------------------------------------------------------------------------
(* Direct calls of the generator *)

\* one of the two directories exists, the other does not
InitGen ==
    /\ fs_dirs = { Dir(1000, 900, 27, 2, 2) }
    /\ fs_files = <<>>
    /\ fs_written = {}
    /\ GenIdle
    /\ TypesIdle
    /\ TempsIdle
    /\ CfIdle
    /\ RsIdle
    /\ DaIdle

CreateFileCall ==
    /\ gen_calls < MaxCalls
    /\ \E file_path \in GenDirs, shape \in GenShapes, num_shade \in 0..MaxNum,
          full_volt \in GenFull, shade_volt \in GenShade, temp \in GenTemps :
          LET r == create_file(fs_files, fs_dirs, file_path, shape[1], shape[2],
                               num_shade, full_volt, shade_volt, temp)
          IN  /\ fs_files' = r.files
              /\ fs_written' = r.written
              /\ gen_last' = [op |-> "create_file",
                              path |-> Path(file_path,
                                            ShadingName(shape[1], shape[2], num_shade)),
                              status |-> r.status,
                              content |-> Netlist("shading", shape[1], shape[2],
                                                  num_shade, full_volt, shade_volt, temp)]
    /\ gen_calls' = gen_calls + 1
    /\ UNCHANGED <<fs_dirs, typesVars, tempsVars, cfVars, rsVars, daVars>>

CreateSpecialFileCall ==
    /\ gen_calls < MaxCalls
    /\ \E file_path \in GenDirs, shape \in GenShapes, type_num \in 1..MaxNum,
          full_volt \in GenFull, temp \in GenTemps, file_type \in {"open", "short"} :
          LET r == create_special_file(fs_files, fs_dirs, file_path, shape[1],
                                       shape[2], full_volt, temp, file_type, type_num)
          IN  /\ fs_files' = r.files
              /\ fs_written' = r.written
              /\ gen_last' = [op |-> "create_special_file",
                              path |-> Path(file_path,
                                            SpecialName(shape[1], shape[2], type_num,
                                                        file_type)),
                              status |-> r.status,
                              content |-> Netlist(file_type, shape[1], shape[2],
                                                  type_num, full_volt, 0, temp)]
    /\ gen_calls' = gen_calls + 1
    /\ UNCHANGED <<fs_dirs, typesVars, tempsVars, cfVars, rsVars, daVars>>

NextGen == CreateFileCall \/ CreateSpecialFileCall

SpecGen == InitGen /\ [][NextGen]_vars

-----------------------------------------------------------------------------
(* The calls of create_files *)

InitFiles ==
    /\ cf_data_sets \in DataSetLists
    /\ cf_pc = [status |-> "idle", run |-> 0, completed |-> 0, d |-> 0, t |-> 0, s |-> 0]
    /\ cf_temp_sets = <<>>
    /\ cf_run_written = {}
    /\ FsEmpty
    /\ GenIdle
    /\ TypesIdle
    /\ TempsIdle
    /\ RsIdle
    /\ DaIdle

\* create_files is called: the config is read and file_sets computed (314-326)
CreateFilesBegin ==
    /\ cf_pc.status \in {"idle", "done", "raised"}
    /\ cf_pc.run < MaxRuns
    /\ cf_pc' = [cf_pc EXCEPT !.status = "dataset", !.run = @ + 1,
                              !.d = 1, !.t = 0, !.s = 0]
    /\ cf_temp_sets' = <<>>
    /\ cf_run_written' = {}
    /\ fs_written' = {}
    /\ UNCHANGED <<cf_data_sets, fs_dirs, fs_files, genVars, typesVars, tempsVars, rsVars, daVars>>

\* for dataset, temps in data_sets: the temperatures are collected (328-345); the
\* call returns after the last dataset, and ends when the expansion raises
CreateFilesDataset ==
    /\ cf_pc.status = "dataset"
    /\ IF cf_pc.d > Len(cf_data_sets)
       THEN /\ cf_pc' = [cf_pc EXCEPT !.status = "done", !.completed = @ + 1]
            /\ cf_temp_sets' = <<>>
       ELSE LET r == ExpandTemps(cf_data_sets[cf_pc.d].temps)
            IN  IF r.status # "returned"
                THEN /\ cf_pc' = [cf_pc EXCEPT !.status = "raised"]
                     /\ cf_temp_sets' = <<>>
                ELSE IF Len(r.temp_sets) = 0 \/ Len(file_sets) = 0
                THEN /\ cf_pc' = [cf_pc EXCEPT !.d = @ + 1]
                     /\ cf_temp_sets' = <<>>
                ELSE /\ cf_pc' = [cf_pc EXCEPT !.status = "dirs", !.t = 1, !.s = 1]
                     /\ cf_temp_sets' = r.temp_sets
    /\ fs_written' = {}
    /\ UNCHANGED <<cf_data_sets, cf_run_written, fs_dirs, fs_files, genVars,
                   typesVars, tempsVars, rsVars, daVars>>

\* one iteration of `for temp in temp_sets: for row, col in file_sets` (346-376)
CreateFilesDir ==
    /\ cf_pc.status = "dirs"
    /\ LET lv == DatasetLevels(cf_data_sets[cf_pc.d].key)
           temp == cf_temp_sets[cf_pc.t]
           shape == file_sets[cf_pc.s]
           r == CreateDir(fs_files, fs_dirs, lv.high, lv.low, temp, shape[1], shape[2])
       IN  IF lv.status # "ok"
           THEN /\ cf_pc' = [cf_pc EXCEPT !.status = "raised"]
                /\ fs_written' = {}
                /\ UNCHANGED <<fs_dirs, fs_files, cf_run_written>>
           ELSE /\ fs_dirs' = r.dirs
                /\ fs_files' = r.files
                /\ fs_written' = r.written
                /\ cf_run_written' = cf_run_written \cup r.written
                /\ cf_pc' =
                       IF r.status # "ok"
                       THEN [cf_pc EXCEPT !.status = "raised"]
                       ELSE IF cf_pc.s < Len(file_sets)
                       THEN [cf_pc EXCEPT !.s = @ + 1]
                       ELSE IF cf_pc.t < Len(cf_temp_sets)
                       THEN [cf_pc EXCEPT !.t = @ + 1, !.s = 1]
                       ELSE [cf_pc EXCEPT !.status = "dataset", !.d = @ + 1,
                                          !.t = 0, !.s = 0]
    /\ UNCHANGED <<cf_data_sets, cf_temp_sets, genVars, typesVars, tempsVars, rsVars, daVars>>

NextFiles == CreateFilesBegin \/ CreateFilesDataset \/ CreateFilesDir

SpecFiles == InitFiles /\ [][NextFiles]_vars

-----------------------------------------------------------------------------
(* The dispatcher and the simulator processes *)

\* run_ltspice(commands) called on its own
InitDispatch ==
    /\ fs_dirs = TreeDirs
    /\ fs_files = [p \in TreeNetlists |-> TreeContent(p)]
    /\ fs_written = {}
    /\ rs_data_name = {}
    /\ rs_commands \in UNION { Orders(S) : S \in { T \in SUBSET TreeNetlists :
                                                    Cardinality(T) <= MaxCommands } }
    /\ pl_pc = IF Len(rs_commands) = 0 THEN [stage |-> "simulated", i |-> 0]
               ELSE [stage |-> "spawn", i |-> 1]
    /\ procs = <<>>
    /\ now = 0
    /\ pl_runs = 0
    /\ GenIdle
    /\ TypesIdle
    /\ TempsIdle
    /\ CfIdle
    /\ DaIdle

\* run_simulations(path, data_name): the tree is scanned and the commands queued
\* (92-129); run_ltspice is entered when there is a command (130-134)
RunSimulations ==
    /\ pl_pc.stage = "start"
    /\ \E commands \in Orders(Queued(fs_files, rs_data_name)) :
          /\ rs_commands' = commands
          /\ pl_pc' = IF Len(commands) > 0 THEN [stage |-> "spawn", i |-> 1]
                      ELSE [stage |-> "simulated", i |-> 0]
    /\ UNCHANGED <<rs_data_name, procs, now, fsVars, genVars, typesVars, tempsVars,
                   cfVars, daVars, pl_runs>>

\* one iteration of the loop of run_ltspice: a process is spawned and put in the
\* queue with its start time, and the dispatcher sleeps (57-59); after the last
\* iteration run_ltspice and run_simulations return
Spawn ==
    /\ pl_pc.stage = "spawn"
    /\ procs' = Append(procs, Spawned(rs_commands[pl_pc.i], now))
    /\ now' = now + SleepTenths
    /\ pl_pc' = IF pl_pc.i < Len(rs_commands) THEN [pl_pc EXCEPT !.i = @ + 1]
                ELSE [stage |-> "simulated", i |-> 0]
    /\ UNCHANGED <<rs_data_name, rs_commands, fsVars, genVars, typesVars, tempsVars,
                   cfVars, daVars, pl_runs>>

\* a running simulator writes part of its result file
ProcWrite ==
    /\ \E k \in Alive :
          /\ ~Exists(fs_files, RawPath(procs[k].cmd))
          /\ fs_files' = WriteFile(fs_files, RawPath(procs[k].cmd),
                                   RawContent("raw_partial"))
    /\ UNCHANGED <<fs_dirs, fs_written, rsVars, genVars, typesVars, tempsVars, cfVars, daVars>>

\* a running simulator completes its result file and exits
ProcFinish ==
    /\ \E k \in Alive :
          /\ fs_files' = WriteFile(fs_files, RawPath(procs[k].cmd), RawContent("raw"))
          /\ procs' = [procs EXCEPT ![k].state = "exited"]
    /\ UNCHANGED <<fs_dirs, fs_written, rs_data_name, rs_commands, pl_pc, now,
                   genVars, typesVars, tempsVars, cfVars, daVars, pl_runs>>

\* a running simulator fails: it exits and leaves what it wrote, if anything
ProcFail ==
    /\ \E k \in Alive : procs' = [procs EXCEPT ![k].state = "exited"]
    /\ UNCHANGED <<fsVars, rs_data_name, rs_commands, pl_pc, now,
                   genVars, typesVars, tempsVars, cfVars, daVars, pl_runs>>

\* time passes once the dispatcher has returned (inside run_ltspice the time is
\* that of its sleeps)
Elapse ==
    /\ pl_pc.stage # "spawn"
    /\ now < MaxClock
    /\ now' = now + 1
    /\ UNCHANGED <<fsVars, rs_data_name, rs_commands, pl_pc, procs,
                   genVars, typesVars, tempsVars, cfVars, daVars, pl_runs>>

NextDispatch == Spawn \/ ProcWrite \/ ProcFinish \/ ProcFail \/ Elapse

SpecDispatch == InitDispatch /\ [][NextDispatch]_vars

-----------------------------------------------------------------------------
(* The pipeline: run_simulations(path, data_name), then
   data_analysis(path, data_name) (circuit_sim.py 392-394) *)

InitPipeline ==
    /\ fs_dirs = TreeDirs
    /\ fs_files \in Trees
    /\ fs_written = {}
    /\ rs_data_name \in DataNames
    /\ rs_commands = <<>>
    /\ pl_pc = [stage |-> "start", i |-> 0]
    /\ procs = <<>>
    /\ now = 0
    /\ pl_runs = 1
    /\ da = [DaStart({}) EXCEPT !.status = "idle"]
    /\ reports = <<>>
    /\ GenIdle
    /\ TypesIdle
    /\ TempsIdle
    /\ CfIdle

\* data_analysis is entered once run_simulations has returned (156-161)
DataAnalysisBegin ==
    /\ pl_pc.stage = "simulated"
    /\ pl_pc' = [stage |-> "analysis", i |-> 0]
    /\ da' = DaStart(DatasetDirs(fs_dirs, rs_data_name))
    /\ UNCHANGED <<reports, fsVars, rs_data_name, rs_commands, procs, now,
                   genVars, typesVars, tempsVars, cfVars, pl_runs>>

\* `for dataset in os.scandir(path)`: the next dataset directory, in the order
\* the file system gives (161-168)
DaDataset ==
    /\ da.status = "datasets"
    /\ \E dataset \in da.datasets_left :
          LET lv == DatasetLevels(DatasetDirName(Dir(dataset.high, dataset.low, 0, 0, 0)))
          IN  /\ da' = IF lv.status # "ok" THEN [da EXCEPT !.status = "ValueError"]
                       ELSE [da EXCEPT !.status = "dirs",
                                       !.datasets_left = @ \ {dataset},
                                       !.dataset = Dataset(lv.high, lv.low),
                                       !.dirs_left = TempDirs(fs_dirs, dataset),
                                       !.temp_list = <<>>,
                                       !.temp_list_special = <<>>]
              /\ pl_pc' = IF lv.status # "ok" THEN [stage |-> "raised", i |-> 0]
                          ELSE pl_pc
    /\ UNCHANGED <<reports, fsVars, rs_data_name, rs_commands, procs, now,
                   genVars, typesVars, tempsVars, cfVars, pl_runs>>

\* `for directory in os.scandir(dataset.path)`: the next temperature directory
\* (169-180)
DaDir ==
    /\ da.status = "dirs"
    /\ \E temperature \in da.dirs_left :
          da' = [da EXCEPT !.status = "subdirs",
                           !.dirs_left = @ \ {temperature},
                           !.temperature = temperature,
                           !.subs_left = SubDirs(fs_dirs, da.dataset, temperature),
                           !.gigantor = <<>>,
                           !.specialdf = <<>>]
    /\ UNCHANGED <<reports, pl_pc, fsVars, rs_data_name, rs_commands, procs, now,
                   genVars, typesVars, tempsVars, cfVars, pl_runs>>

\* `for sub_dir in os.scandir(directory.path)`: the next shape directory (189-197)
DaSubDir ==
    /\ da.status = "subdirs"
    /\ \E sub \in da.subs_left :
          da' = [da EXCEPT !.status = "files", !.subs_left = @ \ {sub},
                           !.sub = sub, !.seen = {}]
    /\ UNCHANGED <<reports, pl_pc, fsVars, rs_data_name, rs_commands, procs, now,
                   genVars, typesVars, tempsVars, cfVars, pl_runs>>

\* `for file in os.scandir(sub_dir.path)`: the next result file is parsed, or
\* removed if the parser raises (198-345)
DaFile ==
    /\ da.status = "files"
    /\ \E path \in RawFiles(fs_files, da.dataset, da.temperature, da.sub) \ da.seen :
          /\ da' = AfterFile(da, fs_files, path)
          /\ fs_files' = RemoveFiles(fs_files, da'.deleted)
    /\ UNCHANGED <<reports, pl_pc, fs_dirs, fs_written, rs_data_name, rs_commands,
                   procs, now, genVars, typesVars, tempsVars, cfVars, pl_runs>>

\* the shape directory has no further result file
DaSubDirEnd ==
    /\ da.status = "files"
    /\ RawFiles(fs_files, da.dataset, da.temperature, da.sub) \ da.seen = {}
    /\ da' = [da EXCEPT !.status = "subdirs"]
    /\ UNCHANGED <<reports, pl_pc, fsVars, rs_data_name, rs_commands, procs, now,
                   genVars, typesVars, tempsVars, cfVars, pl_runs>>

\* after the last shape directory of a temperature directory: the report of the
\* directory (346-370)
DaDirEnd ==
    /\ da.status = "subdirs"
    /\ da.subs_left = {}
    /\ da' = AfterDir(da)
    /\ reports' = IF da'.status = "ValueError" THEN reports
                  ELSE (Report("dir", da.dataset.high, da.dataset.low, da.temperature)
                           :> (da.gigantor \o da.specialdf)) @@ reports
    /\ pl_pc' = IF da'.status = "ValueError" THEN [stage |-> "raised", i |-> 0]
                ELSE pl_pc
    /\ UNCHANGED <<fsVars, rs_data_name, rs_commands, procs, now,
                   genVars, typesVars, tempsVars, cfVars, pl_runs>>

\* after the last temperature directory of a dataset: its two rollups are written,
\* or read back when no directory was harvested and they exist, or the dataset is
\* missing (372-413)
DaDatasetEnd ==
    /\ da.status = "dirs"
    /\ da.dirs_left = {}
    /\ LET shading == Report("shading", da.dataset.high, da.dataset.low, 0)
           special == Report("special", da.dataset.high, da.dataset.low, 0)
       IN  IF Len(da.temp_list) > 0
           THEN /\ reports' = (shading :> Concat(da.temp_list))
                                 @@ (special :> Concat(da.temp_list_special)) @@ reports
                /\ da' = [da EXCEPT !.status = "datasets",
                                    !.dataframe_list = Append(@, Concat(da.temp_list)),
                                    !.dataframe_list_special =
                                        Append(@, Concat(da.temp_list_special)),
                                    !.written = @ \cup {shading, special}]
                /\ pl_pc' = pl_pc
           ELSE IF special \in DOMAIN reports
           THEN /\ reports' = reports
                /\ da' = IF shading \in DOMAIN reports
                         THEN [da EXCEPT !.status = "datasets",
                                         !.dataframe_list = Append(@, reports[shading]),
                                         !.dataframe_list_special =
                                             Append(@, reports[special])]
                         ELSE [da EXCEPT !.status = "FileNotFoundError"]
                /\ pl_pc' = IF shading \in DOMAIN reports THEN pl_pc
                            ELSE [stage |-> "raised", i |-> 0]
           ELSE /\ reports' = reports
                /\ da' = [da EXCEPT !.status = "datasets", !.bad_data = TRUE]
                /\ pl_pc' = pl_pc
    /\ UNCHANGED <<fsVars, rs_data_name, rs_commands, procs, now,
                   genVars, typesVars, tempsVars, cfVars, pl_runs>>

\* after the last dataset: the combined reports, unless the run is degraded
\* (415-439)
DaFinish ==
    /\ da.status = "datasets"
    /\ da.datasets_left = {}
    /\ LET r == FinalReports(da.bad_data, da.dataframe_list, da.dataframe_list_special)
       IN  /\ reports' = r.rows @@ reports
           /\ da' = [da EXCEPT !.status = r.status,
                               !.written = @ \cup DOMAIN r.rows]
           /\ pl_pc' = IF r.status = "returned" THEN [stage |-> "done", i |-> 0]
                       ELSE [stage |-> "raised", i |-> 0]
    /\ UNCHANGED <<fsVars, rs_data_name, rs_commands, procs, now,
                   genVars, typesVars, tempsVars, cfVars, pl_runs>>

NextPipeline ==
    \/ RunSimulations
    \/ Spawn
    \/ ProcWrite
    \/ ProcFinish
    \/ ProcFail
    \/ DataAnalysisBegin
    \/ DaDataset
    \/ DaDir
    \/ DaSubDir
    \/ DaFile
    \/ DaSubDirEnd
    \/ DaDirEnd
    \/ DaDatasetEnd
    \/ DaFinish

SpecPipeline == InitPipeline /\ [][NextPipeline]_vars

-----------------------------------------------------------------------------
(* The pipeline run again over the tree and the reports the run before left *)

\* the trees the driver is run twice on: those of Trees without the second
\* shading netlist, so a shading netlist and a fault netlist in each dataset
RerunTrees ==
    LET extra == Path(Dir(1000, 900, 27, 2, 4), ShadingName(2, 4, 1))
    IN  { [p \in DOMAIN t \ {extra, RawPath(extra)} |-> t[p]] : t \in Trees }

\* the driver is first started on one of these trees, with both datasets named
InitRerun ==
    /\ fs_dirs = TreeDirs
    /\ fs_files \in RerunTrees
    /\ fs_written = {}
    /\ rs_data_name = {DatasetKey(1000, 900), DatasetKey(1000, 800)}
    /\ rs_commands = <<>>
    /\ pl_pc = [stage |-> "start", i |-> 0]
    /\ procs = <<>>
    /\ now = 0
    /\ pl_runs = 1
    /\ da = [DaStart({}) EXCEPT !.status = "idle"]
    /\ reports = <<>>
    /\ GenIdle
    /\ TypesIdle
    /\ TempsIdle
    /\ CfIdle

\* the driver script has ended, by a return or an exception, and is started again:
\* run_simulations(path, data_name), then data_analysis(path, data_name)
\* (circuit_sim.py 392-394); the files and the reports are those it left
DriverAgain ==
    /\ pl_pc.stage \in {"done", "raised"}
    /\ pl_runs < MaxDriverRuns
    /\ pl_runs' = pl_runs + 1
    /\ pl_pc' = [stage |-> "start", i |-> 0]
    /\ rs_commands' = <<>>
    /\ procs' = SelectSeq(procs, LAMBDA proc : proc.state = "running")
    /\ UNCHANGED <<rs_data_name, now, fsVars, genVars, typesVars, tempsVars, cfVars,
                   daVars>>

\* between two runs the temperature directories of a dataset are removed from
\* the tree, the dataset directory and the reports under Output/Data are kept:
\* the case lines 403-410 of data_analysis are written for
RemoveTempDirs ==
    /\ pl_pc.stage \in {"done", "raised"}
    /\ pl_runs < MaxDriverRuns
    /\ Alive = {}
    /\ \E dataset \in DatasetDirs(fs_dirs, rs_data_name) :
          /\ TempDirs(fs_dirs, dataset) # {}
          /\ fs_dirs' = { d \in fs_dirs : ~(d.high = dataset.high /\ d.low = dataset.low) }
                           \cup { DatasetDir(dataset.high, dataset.low) }
          /\ fs_files' = [p \in { q \in DOMAIN fs_files :
                                     ~(/\ q.dir.high = dataset.high
                                       /\ q.dir.low = dataset.low) } |-> fs_files[p]]
    /\ UNCHANGED <<fs_written, rsVars, genVars, typesVars, tempsVars, cfVars, daVars>>

NextRerun == NextPipeline \/ DriverAgain \/ RemoveTempDirs

SpecRerun == InitRerun /\ [][NextRerun]_vars

NextTypes == ListTypesCall

NextTemps == ExpandTempsCall

SpecTypes == InitTypes /\ [][NextTypes]_vars

SpecTemps == InitTemps /\ [][NextTemps]_vars

-----------------------------------------------------------------------------
(* Claims about list_types *)

NoDup(seq) == \A m, n \in 1..Len(seq) : seq[m] = seq[n] => m = n

\* the pairs <<a, b>> with a * b = N and "axb" among items, in ascending order of a
FactorPairs(N, items) ==
    SelectSeq([a \in 1..N |-> <<a, N \div a>>],
              LAMBDA p : p[1] * p[2] = N /\ Label(p[1], p[2]) \in items)

ExpectedSets(counts, items) ==
    Concat([k \in 1..Len(counts) |-> FactorPairs(counts[k], items)])

NonEmptyAllowList == ~lt_sets_to_make.isNone /\ lt_sets_to_make.items # {}

ListTypesDone == lt_result.status \notin {"idle", "pending"}

\* C1 as stated: with a non-empty allow-list, list_types returns for each count N
\* exactly the allow-listed factor pairs of N in ascending order of a, and no pair
\* appears twice in the result.
C1_NoPairTwice ==
    (ListTypesDone /\ NonEmptyAllowList) =>
        /\ lt_result.status = "returned"
        /\ lt_result.sets = ExpectedSets(lt_max_cells, lt_sets_to_make.items)
        /\ NoDup(lt_result.sets)

\* C1 as amended: the result is, count by count, the allow-listed factor pairs in
\* ascending order of a; no pair appears twice when the counts of the list are
\* distinct (a count listed twice contributes its pairs twice).
C1_ExactFactorPairs ==
    (ListTypesDone /\ NonEmptyAllowList) =>
        /\ lt_result.status = "returned"
        /\ lt_result.sets = ExpectedSets(lt_max_cells, lt_sets_to_make.items)
        /\ \A k \in 1..Len(lt_max_cells) :
               NoDup(FactorPairs(lt_max_cells[k], lt_sets_to_make.items))
        /\ NoDup(lt_max_cells) => NoDup(lt_result.sets)

\* list_types([8, 10], <allow-list of create_files>) has returned its four shapes
\* of 8 and 10 cells, the pairs 1x8 and 8x1 left out
C1_Witness ==
    /\ lt_result.status = "returned"
    /\ lt_max_cells = <<8, 10>>
    /\ lt_sets_to_make = ListOf(AllowList)
    /\ lt_result.sets = <<<<2, 4>>, <<4, 2>>, <<1, 10>>, <<2, 5>>, <<5, 2>>, <<10, 1>>>>

\* C2: list_types never fails, and with an empty allow-list or with the default
\* sets_to_make=None it returns an empty list.
C2_EmptyAllowListEmptyOutput ==
    (ListTypesDone /\ ~NonEmptyAllowList) =>
        /\ lt_result.status = "returned"
        /\ lt_result.sets = <<>>

-----------------------------------------------------------------------------
(* Claims about the temperature expansion *)

\* what a token contributes: its integer, or every integer from lo to hi inclusive
TokenTemps(tok) ==
    IF ~tok.range THEN <<tok.lo>>
    ELSE IF tok.hi < tok.lo THEN <<>>
    ELSE [k \in 1..(tok.hi - tok.lo + 1) |-> tok.lo + k - 1]

\* C3: each single-integer token contributes its integer and each low-high token
\* every integer from low to high inclusive, in token order with duplicates kept;
\* "27, 30-32" gives [27,30,31,32], "40-40" gives [40], and an empty spec gives the
\* built-in list [27,30,35,40,45,50].
C3_TempExpansion ==
    (tp_result.status \notin {"idle", "pending"}) =>
        /\ tp_result.status = "returned"
        /\ tp_temps # <<>> =>
               tp_result.temp_sets =
                   Concat([k \in 1..Len(tp_tokens) |-> TokenTemps(tp_tokens[k])])
        /\ tp_temps = <<>> => tp_result.temp_sets = <<27, 30, 35, 40, 45, 50>>
        /\ tp_temps = <<"2", "7", ",", " ", "3", "0", "-", "3", "2">> =>
               tp_result.temp_sets = <<27, 30, 31, 32>>
        /\ tp_temps = <<"4", "0", "-", "4", "0">> => tp_result.temp_sets = <<40>>

\* "27, 30-32" has been expanded to four temperatures
C3_Witness ==
    /\ tp_result.status = "returned"
    /\ tp_temps = <<"2", "7", ",", " ", "3", "0", "-", "3", "2">>
    /\ Len(tp_result.temp_sets) = 4


-----------------------------------------------------------------------------
(* Claims about the generator *)

\* C4: when the target .cir file already exists, create_file and
\* create_special_file return without opening it for writing, and its content is
\* unchanged, whatever the other arguments are.
C4_ExistingNetlistUntouched ==
    [][\A path \in DOMAIN fs_files :
           /\ path \in DOMAIN fs_files'
           /\ fs_files'[path] = fs_files[path]
           /\ path \notin fs_written']_vars

\* a call that found its target written from other arguments, and skipped it
C4_Witness ==
    /\ gen_last.status = "skipped"
    /\ gen_last.op = "create_special_file"
    /\ gen_last.path \in DOMAIN fs_files
    /\ fs_files[gen_last.path] # gen_last.content


-----------------------------------------------------------------------------
(* Claims about create_files *)

\* name.endswith("cir")
IsCir(path) ==
    LET n == Len(path.name)
    IN  n >= 3 /\ SubSeq(path.name, n - 2, n) = <<"c", "i", "r">>

\* a call of create_files made after an earlier call completed
LaterRun == cf_pc.run >= 2 /\ cf_pc.completed >= 1 /\ cf_pc.status # "idle"

-----------------------------------------------------------------------------
(* Claims about run_simulations and the dispatcher *)

\* the number of times x is in seq
CountIn(seq, x) == Cardinality({ k \in DOMAIN seq : seq[k] = x })

\* the result file next to a netlist: its name with raw for cir
ResultOf(path) ==
    Path(path.dir, SubSeq(path.name, 1, Len(path.name) - 3) \o <<"r", "a", "w">>)

\* a netlist of the tree in a dataset of data_name
Considered(path) ==
    /\ path \in DOMAIN fs_files
    /\ IsCir(path)
    /\ DatasetDirName(path.dir) \in rs_data_name

\* run_simulations has scanned the tree and nothing has touched the tree since
JustScanned ==
    /\ pl_pc.stage \in {"spawn", "simulated"}
    /\ procs = <<>>
    /\ da.status = "idle"

\* C6: run_simulations queues exactly one command for every netlist of a selected
\* dataset that has no result file next to it and none for a netlist that has one;
\* the dispatcher launches the commands of the queue, each once, and when the
\* queue is empty no process is spawned at all.
C6_OneCommandPerMissingResult ==
    /\ JustScanned =>
          /\ \A path \in DOMAIN fs_files :
                Considered(path) =>
                    CountIn(rs_commands, path)
                        = IF Exists(fs_files, ResultOf(path)) THEN 0 ELSE 1
          /\ \A k \in DOMAIN rs_commands : Considered(rs_commands[k])
    /\ Len(procs) <= Len(rs_commands)
    /\ \A k \in DOMAIN procs : procs[k].cmd = rs_commands[k]
    /\ (pl_pc.stage # "start" /\ rs_commands = <<>>) => procs = <<>>

\* a scan that queued one netlist and left out another that has its result file
C6_Witness ==
    /\ JustScanned
    /\ Len(rs_commands) = MaxMissing
    /\ \E path \in DOMAIN fs_files : Considered(path) /\ Exists(fs_files, ResultOf(path))

\* a scan of a tree whose selected netlists all have results: nothing is spawned
C6_WitnessNothingQueued ==
    /\ pl_pc.stage = "analysis"
    /\ rs_commands = <<>>
    /\ procs = <<>>
    /\ \E path \in DOMAIN fs_files : Considered(path)

\* C7 as stated: a simulator process still running after the fixed per-process
\* timeout is terminated by the dispatcher, so no process of the queue is running
\* once it is older than the timeout.
C7_TimedOutTerminated ==
    \A k \in DOMAIN procs :
        procs[k].state = "running" => now - procs[k].started <= TimeoutTenths

\* no result file is read while the simulator that writes it is running
C8_NoReadWhileWritten ==
    da.nread > 0 => \A k \in Alive : RawPath(procs[k].cmd) # da.read

\* C8 as stated: when run_simulations has returned no simulator process is still
\* running, and data_analysis never reads a result file whose simulator is still
\* running.
C8_NoSimulatorAfterReturn ==
    /\ pl_pc.stage \notin {"start", "spawn"} => Alive = {}
    /\ C8_NoReadWhileWritten

-----------------------------------------------------------------------------
(* Claims about data_analysis *)

\* C10: when the parser rejects a result file, data_analysis removes that file and
\* sets bad_data; bad_data once set stays set until the invocation ends; and an
\* invocation with bad_data set writes none of the combined reports.
C10_CorruptResultDegradesRun ==
    [][/\ (da'.nread = da.nread + 1 /\ ParseFails(fs_files[da'.read]))
             => (~Exists(fs_files', da'.read) /\ da'.bad_data)
       /\ da.bad_data => da'.bad_data
       /\ da'.bad_data =>
             /\ CombinedReports \cap da'.written = {}
             /\ CombinedReports \cap DOMAIN reports' = CombinedReports \cap DOMAIN reports
      ]_vars

\* an invocation that met a truncated result file, removed it, went on to the
\* end over the other results and returned
C10_Witness ==
    /\ pl_pc.stage = "done"
    /\ da.bad_data
    /\ da.deleted # {}
    /\ \A path \in da.deleted : ~Exists(fs_files, path)
    /\ Report("shading", 1000, 900, 0) \in da.written

\* the result files of the datasets of data_name that are in the tree
RawsOfRun ==
    { path \in DOMAIN fs_files :
        /\ EndsWith(path.name, <<"r", "a", "w">>)
        /\ DatasetDirName(path.dir) \in rs_data_name }

\* the files the frames of a list were read from
FilesOf(frames) == { frames[k].file : k \in DOMAIN frames }

\* the result files data_analysis has met so far: those it removed and those it
\* has a frame of
Visited ==
    da.deleted \cup FilesOf(da.gigantor) \cup FilesOf(da.specialdf)
        \cup FilesOf(Concat(da.temp_list)) \cup FilesOf(Concat(da.temp_list_special))
        \cup FilesOf(Concat(da.dataframe_list))
        \cup FilesOf(Concat(da.dataframe_list_special))

\* data_analysis has ended, by a return or by an exception
DaEnded == pl_pc.stage \in {"done", "raised"}

\* C11 as stated: an invocation of data_analysis that met a corrupt result file
\* (no simulator running beside it) has, when it ends, visited every result file
\* of every dataset of data_name.
C11_AllResultsVisited ==
    (DaEnded /\ rs_commands = <<>> /\ da.deleted # {}) => RawsOfRun \subseteq Visited

\* every simulator spawned has exited and left no result file, and data_analysis
\* met no corrupt file: the result files missing are the only fault of the run
OnlyMissingResults ==
    /\ da.deleted = {}
    /\ Alive = {}
    /\ \A k \in DOMAIN procs : ~Exists(fs_files, RawPath(procs[k].cmd))

\* C12 as stated: when simulations failed and left no result file, data_analysis
\* raises no error, and when it ends it has processed every result file that exists.
C12_MissingResultsSkipped ==
    OnlyMissingResults =>
        /\ da.status \notin {"ValueError", "FileNotFoundError"}
        /\ DaEnded => RawsOfRun \subseteq Visited

-----------------------------------------------------------------------------
(* Claims about the text of the netlists *)

\* the netlists written by the last step
WrittenNetlists == { p \in fs_written : fs_files[p].kind \in {"shading", "open", "short"} }

\* the lines of a kind in a text, as positions
LinesOf(text, kind) == { k \in DOMAIN text : text[k].kind = kind }

\* the number of irradiance source lines of a text that carry a value
SourcesAt(text, volt) ==
    Cardinality({ k \in LinesOf(text, "virrad") : text[k].words[5] = ToStr(volt) })

\* C13: in the file of a UniformShade(0) job every cell has its irradiance source
\* line, every such line carries the full-intensity value and none the shade value.
C13_NoShadeAllFull ==
    \A p \in WrittenNetlists :
        LET c == fs_files[p]
            t == TextOf(c)
        IN  (c.kind = "shading" /\ c.num = 0) =>
                /\ Cardinality(LinesOf(t, "virrad")) = c.row * c.col
                /\ \A k \in LinesOf(t, "virrad") :
                      /\ t[k].words[5] = ToStr(c.full)
                      /\ t[k].words[5] # ToStr(c.shade)

\* a UniformShade(0) file of a 2x4 array has just been written
C13_Witness ==
    \E p \in WrittenNetlists :
        LET c == fs_files[p]
        IN  c.kind = "shading" /\ c.num = 0 /\ c.row = 2 /\ c.col = 4 /\ c.full # c.shade

\* C14 as stated: in the file of a UniformShade(n) job exactly n cells carry the
\* shade value and R*C - n the full value, as its header line says.
C14_ShadeCountIsNumShade ==
    \A p \in WrittenNetlists :
        LET c == fs_files[p]
            t == TextOf(c)
        IN  c.kind = "shading" =>
                /\ t[3] = Line("shade_count", <<ToStr(c.num), ToStr(c.row * c.col - c.num)>>)
                /\ SourcesAt(t, c.shade) = c.num
                /\ SourcesAt(t, c.full) = c.row * c.col - c.num

\* the position of the header line of column c (from 1) in a text
ColumnAt(text, c) ==
    CHOOSE k \in LinesOf(text, "column") : text[k].words = <<Pad2(c)>>

\* the lines of column c: those after its header and the blank line under it, up
\* to the blank line above the next header, or above the probe line after the
\* last column
ColumnBlock(text, c, col) ==
    LET from == ColumnAt(text, c) + 2
        next == IF c < col THEN ColumnAt(text, c + 1)
                ELSE CHOOSE k \in LinesOf(text, "vbias") : TRUE
    IN  SubSeq(text, from, next - 2)

\* the no-fault file next to a netlist: the UniformShade(0) file of its directory
NoFaultPath(p) == Path(p.dir, ShadingName(p.dir.row, p.dir.col, 0))

\* C15: in the file of a ColumnOpen(k) job, k >= 1, each of the last k columns
\* holds the skip comment and no cell or source line, and every earlier column
\* holds the lines of that column of the no-fault UniformShade(0) file of the shape.
C15_LastColumnsOpen ==
    \A p \in WrittenNetlists :
        LET c == fs_files[p]
            t == TextOf(c)
        IN  (c.kind = "open" /\ Exists(fs_files, NoFaultPath(p))) =>
                \A n \in 1..c.col :
                    IF n > c.col - c.num
                    THEN ColumnBlock(t, n, c.col) = << Line("skip", <<>>) >>
                    ELSE /\ ColumnBlock(t, n, c.col)
                              = ColumnBlock(TextOf(fs_files[NoFaultPath(p)]), n, c.col)
                         /\ Len(ColumnBlock(t, n, c.col)) = 5 * c.row

\* a ColumnOpen(2) file of a 2x4 array has just been written next to the no-fault
\* file of its directory
C15_Witness ==
    \E p \in WrittenNetlists :
        LET c == fs_files[p]
        IN  /\ c.kind = "open" /\ c.num = 2 /\ c.row = 2 /\ c.col = 4
            /\ Exists(fs_files, NoFaultPath(p))
            /\ fs_files[NoFaultPath(p)].kind = "shading"

\* C16 as stated: in the file of every TerminalShort(n) job the driver generates,
\* every cell is written at full intensity, and the short resistor lines are those
\* of the final-row cell of each of the last n columns: exactly n of them.
C16_ShortsLastColumns ==
    \A p \in WrittenNetlists :
        LET c == fs_files[p]
            t == TextOf(c)
        IN  c.kind = "short" =>
                /\ SourcesAt(t, c.full) = c.row * c.col
                /\ Cardinality(LinesOf(t, "r")) = c.num
                /\ { t[k] : k \in LinesOf(t, "r") }
                      = { ShortLine(i, c.row) : i \in (c.col - c.num)..(c.col - 1) }

\* the cell line of column i (from 0), row j of a text, and its source line
CellLineOf(text, i, j) ==
    CHOOSE k \in LinesOf(text, "xcell") :
        text[k].words[1] = StartNode(i, j) /\ text[k].words[2] = EndNode(i, j)

SourceLineOf(text, i, j) ==
    CHOOSE k \in LinesOf(text, "virrad") :
        text[k].words[1] = StartNode(i, j) /\ text[k].words[2] = EndNode(i, j)

\* the columns (from 0) written in a netlist: all but the open ones
WrittenColumns(c) ==
    { i \in 0..(c.col - 1) : ~(c.kind = "open" /\ i >= c.col - c.num) }

\* C17: in every generated netlist each written column is a series chain between
\* the probe node 01 and ground: the upper terminal of its first cell is 01, the
\* lower terminal of its last cell is 0, the lower terminal of each other cell is
\* the upper terminal of the next cell of the column, and the source of each cell
\* connects the control node of the cell to the lower terminal of the cell.
C17_SeriesChain ==
    \A p \in WrittenNetlists :
        LET c == fs_files[p]
            t == TextOf(c)
            lower(i, j) == t[CellLineOf(t, i, j)].words[3]
            upper(i, j) == t[CellLineOf(t, i, j)].words[4]
            control(i, j) == t[CellLineOf(t, i, j)].words[5]
            source(i, j) == t[SourceLineOf(t, i, j)].words
        IN  /\ Cardinality(LinesOf(t, "xcell")) = c.row * Cardinality(WrittenColumns(c))
            /\ Cardinality(LinesOf(t, "virrad")) = c.row * Cardinality(WrittenColumns(c))
            /\ \A i \in WrittenColumns(c) :
                  /\ upper(i, 1) = <<"0", "1">>
                  /\ lower(i, c.row) = <<"0">>
                  /\ \A j \in 1..(c.row - 1) :
                        /\ lower(i, j) = upper(i, j + 1)
                        /\ lower(i, j) \notin { <<"0">>, <<"0", "1">> }
                  /\ \A j \in 1..c.row :
                        /\ source(i, j)[3] = control(i, j)
                        /\ source(i, j)[4] = lower(i, j)

\* a netlist of three cells in series per column has just been written
C17_Witness ==
    \E p \in WrittenNetlists :
        LET c == fs_files[p]
        IN  c.row = 3 /\ c.col = 3 /\ c.kind = "short"

-----------------------------------------------------------------------------
(* Claims about the files create_files makes *)

\* the names of the netlists of a directory of the tree
NetlistsIn(d) == { p.name : p \in { q \in DOMAIN fs_files : q.dir = d /\ IsCir(q) } }

\* the names the claim lists for a shape
ExpectedNetlists(row, col) ==
    { ShadingName(row, col, n) : n \in 0..(row * col) }
        \cup { SpecialName(row, col, k, "open") : k \in 1..(col - 1) }
        \cup { SpecialName(row, col, n, "short") : n \in 1..(row * col - col) }

\* C18: every shape directory create_files has made holds exactly the netlists
\* RxC_n_Shading.cir for n = 0..R*C (R*C + 1 distinct files), RxC_k_Open.cir for
\* k = 1..C-1 and RxC_s_Short.cir for s = 1..R*C-C, and no other .cir file; and a
\* run that has returned has made the directory of every shape and temperature of
\* every dataset.
C18_ExactNetlists ==
    /\ \A d \in fs_dirs :
          /\ NetlistsIn(d) = ExpectedNetlists(d.row, d.col)
          /\ Cardinality({ name \in NetlistsIn(d) :
                             Contains(name, <<"S", "h", "a", "d", "i", "n", "g">>) })
                = d.row * d.col + 1
    /\ cf_pc.status = "done" =>
          \A k \in DOMAIN cf_data_sets :
              LET lv == DatasetLevels(cf_data_sets[k].key)
                  ts == ExpandTemps(cf_data_sets[k].temps).temp_sets
              IN  \A t \in DOMAIN ts, n \in DOMAIN file_sets :
                      Dir(lv.high, lv.low, ts[t], file_sets[n][1], file_sets[n][2])
                          \in fs_dirs

\* a run has returned and made the 2x4 directory of temperature 30 of 1000-900,
\* with its 9 Shading files
C18_Witness ==
    /\ cf_pc.status = "done"
    /\ Dir(1000, 900, 30, 2, 4) \in fs_dirs
    /\ Cardinality({ name \in NetlistsIn(Dir(1000, 900, 30, 2, 4)) :
                       Contains(name, <<"S", "h", "a", "d", "i", "n", "g">>) }) = 9

\* C19 as stated: every generated netlist holds exactly one sweep directive line,
\* and its upper bound is 1.05 * R written with two decimals: 2.10 when R = 2.
C19_SweepTwoDecimals ==
    \A p \in WrittenNetlists :
        LET c == fs_files[p]
            t == TextOf(c)
        IN  /\ Cardinality(LinesOf(t, "dc")) = 1
            /\ \A k \in LinesOf(t, "dc") :
                  /\ t[k].words = << SweepText_TwoDecimals(c.row) >>
                  /\ c.row = 2 => t[k].words = << <<"2", ".", "1", "0">> >>

\* every generated netlist holds exactly one sweep directive line
C19_OneSweepLine ==
    \A p \in WrittenNetlists : Cardinality(LinesOf(TextOf(fs_files[p]), "dc")) = 1

-----------------------------------------------------------------------------
(* Claims about the per-cell power *)

\* the frames data_analysis holds
FramesHeld ==
    UNION { { frames[k] : k \in DOMAIN frames } :
            frames \in { da.gigantor, da.specialdf,
                         Concat(da.temp_list), Concat(da.temp_list_special),
                         Concat(da.dataframe_list), Concat(da.dataframe_list_special) } }

\* C20 as stated: in the frame of every Shaded or Short result, the power of the
\* cell of row j of a column is (V(upper node) - V(upper node of the next cell))
\* times the cell current when j is not the last row, and V(upper node) times the
\* cell current when it is, the upper node of a first-row cell being 01.
C20_CellPower ==
    \A f \in FramesHeld :
        f.type \in {"Shaded", "Short"} =>
            \A i \in 0..(f.file.dir.col - 1), j \in 1..f.file.dir.row :
                LET power == f.cells[i * f.file.dir.row + j]
                IN  /\ power.v_in = UpperNode(i, j)
                    /\ power.cell = StartNode(i, j) \o <<"_">> \o EndNode(i, j)
                    /\ IF j < f.file.dir.row
                       THEN power.kind = "difference" /\ power.v_out = UpperNode(i, j + 1)
                       ELSE power.kind = "single"

\* the part of C20 that holds: the first column, and the last cell of every column
C20_FirstColumnAndLastCells ==
    \A f \in FramesHeld :
        f.type \in {"Shaded", "Short"} =>
            \A i \in 0..(f.file.dir.col - 1), j \in 1..f.file.dir.row :
                LET power == f.cells[i * f.file.dir.row + j]
                IN  (i = 0 \/ j = f.file.dir.row) =>
                       /\ power.v_in = UpperNode(i, j)
                       /\ IF j < f.file.dir.row
                          THEN power.kind = "difference"
                                  /\ power.v_out = UpperNode(i, j + 1)
                          ELSE power.kind = "single"

-----------------------------------------------------------------------------
(* Claims about the fault files of a shape directory *)

\* the circuit a text describes: its cell, source and resistor lines
CircuitOf(text) ==
    { text[k] : k \in LinesOf(text, "xcell") \cup LinesOf(text, "virrad")
                       \cup LinesOf(text, "r") }

\* the files of a fault kind in the directory of a netlist, other than the netlist
OtherFaultFiles(p, kind) ==
    { q \in DOMAIN fs_files : q # p /\ q.dir = p.dir /\ fs_files[q].kind = kind }

\* C22: no two Open files and no two Short files that create_files writes into
\* the same shape directory describe the same circuit.
C22_NoDuplicateFaultFiles ==
    \A p \in WrittenNetlists :
        fs_files[p].kind \in {"open", "short"} =>
            \A q \in OtherFaultFiles(p, fs_files[p].kind) :
                CircuitOf(TextOf(fs_files[p])) # CircuitOf(TextOf(fs_files[q]))

\* C22, the part that holds: no two Open files of a shape directory describe the
\* same circuit
C22_OpenFilesDistinct ==
    \A p \in WrittenNetlists :
        fs_files[p].kind = "open" =>
            \A q \in OtherFaultFiles(p, "open") :
                CircuitOf(TextOf(fs_files[p])) # CircuitOf(TextOf(fs_files[q]))

\* two Open files have been written into a shape directory
C22_WitnessTwoOpenFiles ==
    \E p \in WrittenNetlists :
        fs_files[p].kind = "open" /\ OtherFaultFiles(p, "open") # {}

-----------------------------------------------------------------------------
(* Claims about the two generators *)

\* the positions at which two texts of the same length differ
DiffLines(t, u) == { k \in DOMAIN t : t[k] # u[k] }

\* C24: for the same arguments the generator of circuit_sim.py and that of main.py
\* write the same file name and the same text for every UniformShade and
\* ColumnOpen job; for a TerminalShort job the texts differ only in the lines of
\* the short element, a resistor to ground against a zero-valued current source.
C24_GeneratorsAgree ==
    \A p \in WrittenNetlists :
        LET c == fs_files[p]
            t == TextOf(c)
            u == main_TextOf(c)
        IN  /\ c.kind \in {"shading", "open"} => (main_NameOf(c) = p.name /\ u = t)
            /\ c.kind = "short" =>
                  /\ main_NameOf(c) = p.name
                  /\ Len(u) = Len(t)
                  /\ \A k \in DiffLines(t, u) : t[k].kind = "r" /\ u[k].kind = "is"

\* C24, the part that holds: the texts agree as stated for every job, and the
\* names for every job but UniformShade(0)
C24_GeneratorsAgreeButNoShadeName ==
    \A p \in WrittenNetlists :
        LET c == fs_files[p]
            t == TextOf(c)
            u == main_TextOf(c)
        IN  /\ c.kind \in {"shading", "open"} => u = t
            /\ ~(c.kind = "shading" /\ c.num = 0) => main_NameOf(c) = p.name
            /\ c.kind = "short" =>
                  /\ Len(u) = Len(t)
                  /\ DiffLines(t, u) = LinesOf(t, "r")
                  /\ DiffLines(t, u) = LinesOf(u, "is")
                  /\ DiffLines(t, u) # {}

-----------------------------------------------------------------------------
(* Claims about a temps value that cannot be parsed *)

\* a temps token is an integer, or "low-high" with integer bounds
WellFormedToken(val) ==
    \/ IntOk(val)
    \/ LET parts == Split(val, <<"-">>)
       IN  Len(parts) = 2 /\ IntOk(parts[1]) /\ IntOk(parts[2])

\* a temps value has a token that is neither
HasMalformedToken(temps) ==
    /\ temps # <<>>
    /\ LET var_sets == Split(temps, <<",", " ">>)
       IN  \E k \in DOMAIN var_sets : ~WellFormedToken(var_sets[k])

\* create_files is about to collect the temperatures of a dataset whose temps
\* value has a malformed token
AtMalformedDataset ==
    /\ cf_pc.status = "dataset"
    /\ cf_pc.d <= Len(cf_data_sets)
    /\ HasMalformedToken(cf_data_sets[cf_pc.d].temps)

\* C25: when the temps value of a dataset has a token that is neither an integer
\* nor "low-high" with integer bounds, create_files fails with a parsing error
\* while it expands the temperatures of that dataset, before any directory or
\* file of that dataset is created; the files of the datasets before stay.
C25_MalformedTempsRaise ==
    [][AtMalformedDataset =>
          /\ cf_pc'.status = "raised"
          /\ fs_dirs' = fs_dirs
          /\ fs_files' = fs_files
          /\ \A dir \in fs_dirs' : DatasetDirName(dir) # cf_data_sets[cf_pc.d].key
          /\ \A p \in DOMAIN fs_files' :
                DatasetDirName(p.dir) # cf_data_sets[cf_pc.d].key]_vars

\* create_files has failed at its second dataset, the files of the first written
C25_Witness ==
    /\ cf_pc.status = "raised"
    /\ cf_pc.d = 2
    /\ HasMalformedToken(cf_data_sets[2].temps)
    /\ \E p \in DOMAIN fs_files : DatasetDirName(p.dir) = cf_data_sets[1].key

-----------------------------------------------------------------------------
(* Claims about the generator and the harvester together: the harvester is
   applied to the result file that the simulator names after a written netlist *)

\* what data_analysis takes from the names of the result file of netlist p: the
\* shape from the directory name, the type and the fault count from the file name
\* (192, 203-207, 244-250)
HarvestArgs(p) ==
    LET raw == RawPath(p)
        shape == ShapeOf(raw.dir)
    IN  [series |-> shape.series, parallel |-> shape.parallel,
         type |-> TypeOf(raw.name), special_num |-> SpecialNum(raw.name)]

\* what it computes the power of cell (i, j) from
HarvestOf(a, i, j) == CellPower(i, j, a.series, a.parallel, a.type, a.special_num)

\* the cells (column from 0, row from 1) the harvester loops over (267-270)
HarvestCells(a) == (0..(a.parallel - 1)) \X (1..a.series)

\* cell_n = i * series + j (272-274)
CellNumberOf(a, cell) == cell[1] * a.series + cell[2]

\* the cells the generator wrote into a text, by their start and end
CellsWritten(text) ==
    { <<text[k].words[1], text[k].words[2]>> : k \in LinesOf(text, "xcell") }

\* C26: for an Open(k) result of an RxC shape data_analysis reports constant zero
\* power for exactly the cells of the columns create_special_file left out (the
\* last k columns), derives the power of every other cell from simulator
\* signals, and gives every cell number 1..R*C exactly one power column.
C26_OpenColumnsAgree ==
    \A p \in { q \in WrittenNetlists : fs_files[q].kind = "open" } :
        LET c == fs_files[p]
            written == CellsWritten(TextOf(c))
            a == HarvestArgs(p)
            columns == CellPowers(RawPath(p))
        IN  /\ HarvestCells(a) = (0..(c.col - 1)) \X (1..c.row)
            /\ \A cell \in HarvestCells(a) :
                  /\ HarvestOf(a, cell[1], cell[2]).kind = "zero"
                        <=> <<StartNode(cell[1], cell[2]), EndNode(cell[1], cell[2])>>
                               \notin written
                  /\ HarvestOf(a, cell[1], cell[2]).kind = "zero"
                        <=> cell[1] >= c.col - c.num
                  /\ columns[CellNumberOf(a, cell)] = HarvestOf(a, cell[1], cell[2])
            /\ { CellNumberOf(a, cell) : cell \in HarvestCells(a) } = 1..(c.row * c.col)
            /\ \A cell, other \in HarvestCells(a) :
                  CellNumberOf(a, cell) = CellNumberOf(a, other) => cell = other
            /\ DOMAIN columns = 1..(c.row * c.col)

\* an Open(2) file of a shape with several rows and more than two written
\* columns has just been generated
C26_Witness ==
    \E p \in WrittenNetlists :
        LET c == fs_files[p]
        IN  c.kind = "open" /\ c.num = 2 /\ c.row > 1 /\ c.col > 3

\* the terminal nodes of the cells of a text, and the instance names of its
\* cells as the simulator names their currents, Ix(cell_<start>_<end>:300)
TerminalNodes(text) ==
    UNION { {text[k].words[3], text[k].words[4]} : k \in LinesOf(text, "xcell") }

InstanceNames(text) ==
    { text[k].words[1] \o <<"_">> \o text[k].words[2] : k \in LinesOf(text, "xcell") }

\* C27: every signal the harvester requests for a cell that is not in an omitted
\* column names something the generator wrote in the netlist of the same shape
\* and fault: each V(node) a terminal node of a written cell, each
\* Ix(cell_a_b:300) the instance of a written xcell line.
C27_RequestedSignalsWritten ==
    \A p \in WrittenNetlists :
        LET nodes == TerminalNodes(TextOf(fs_files[p]))
            names == InstanceNames(TextOf(fs_files[p]))
            written == CellsWritten(TextOf(fs_files[p]))
            a == HarvestArgs(p)
        IN  \A cell \in HarvestCells(a) :
              LET h == HarvestOf(a, cell[1], cell[2])
              IN  h.kind # "zero" =>
                    /\ h.v_in \in nodes
                    /\ h.kind = "difference" => h.v_out \in nodes
                    /\ h.cell \in names
                    /\ <<StartNode(cell[1], cell[2]), EndNode(cell[1], cell[2])>>
                          \in written

\* a Short file and a Shading file of a shape with several rows and columns
\* have been generated, in which the harvester requests a voltage difference
C27_Witness ==
    /\ \E p \in WrittenNetlists :
          /\ fs_files[p].kind = "short" /\ fs_files[p].row > 1 /\ fs_files[p].col > 1
          /\ \E cell \in HarvestCells(HarvestArgs(p)) :
                HarvestOf(HarvestArgs(p), cell[1], cell[2]).kind = "difference"
    /\ \E p \in WrittenNetlists : fs_files[p].kind = "shading"

-----------------------------------------------------------------------------
(* Claims about the shading sweep *)

\* the cells of a text whose irradiance source carries a value, by their nodes
CellsAt(text, volt) ==
    { <<text[k].words[1], text[k].words[2]>> :
        k \in { m \in LinesOf(text, "virrad") : text[m].words[5] = ToStr(volt) } }

\* the shading files written into the directory of p for one cell more than p
NextShadingFiles(p) ==
    { q \in WrittenNetlists : /\ q.dir = p.dir
                              /\ fs_files[q].kind = "shading"
                              /\ fs_files[q].num = fs_files[p].num + 1 }

\* C28: for a fixed shape the shading sweep is monotone: the cells shaded by
\* UniformShade(n) are among those shaded by UniformShade(n+1), for every
\* 0 <= n < R*C, and UniformShade(R*C) shades every cell.
C28_ShadingSweepMonotone ==
    \A p \in WrittenNetlists :
        LET c == fs_files[p]
            t == TextOf(c)
        IN  c.kind = "shading" =>
              /\ c.num < c.row * c.col => NextShadingFiles(p) # {}
              /\ \A q \in NextShadingFiles(p) :
                    CellsAt(t, c.shade) \subseteq CellsAt(TextOf(fs_files[q]), c.shade)
              /\ c.num = c.row * c.col =>
                    /\ Cardinality(CellsAt(t, c.shade)) = c.row * c.col
                    /\ CellsAt(t, c.full) = {}

\* the sweep of a shape with several rows and columns has been written, and one
\* of its files shades some cells but not all
C28_Witness ==
    \E p \in WrittenNetlists :
        LET c == fs_files[p]
        IN  /\ c.kind = "shading" /\ c.row > 1 /\ c.col > 1 /\ c.full # c.shade
            /\ CellsAt(TextOf(c), c.shade) # {}
            /\ CellsAt(TextOf(c), c.full) # {}
            /\ NextShadingFiles(p) # {}

-----------------------------------------------------------------------------
(* Claims about a second run of the pipeline *)

\* the two rollups of a dataset, Output/Data/<dataset>-Shading.csv and -Special.csv
ShadingRollup(dataset) == Report("shading", dataset.high, dataset.low, 0)
SpecialRollup(dataset) == Report("special", dataset.high, dataset.low, 0)

\* data_analysis has just parsed a result file of the dataset it is in
ParsedInDataset ==
    /\ pl_pc.stage = "analysis"
    /\ da.status = "files"
    /\ da.verdict = "parsed"
    /\ Dataset(da.read.dir.high, da.read.dir.low) = da.dataset

\* C21: whenever the rollup of a dataset is on disk from a previous run,
\* data_analysis takes the rows of the dataset from the rollups and does not
\* recompute them: it parses no result file of a dataset whose rollup exists
\* (the rollup of the dataset it is in can only be one of a previous run, this
\* run writes it after the last temperature directory)
C21_RollupNotRecomputed ==
    ParsedInDataset => SpecialRollup(da.dataset) \notin DOMAIN reports

\* C21, the part that holds: when no temperature directory of the dataset gave
\* rows and both rollups are on disk, the rows of the dataset are those of the
\* rollups and no report is written
C21_RollupReadWhenNothingHarvested ==
    [][(/\ da.status = "dirs"
        /\ da.dirs_left = {}
        /\ da'.status = "datasets"
        /\ Len(da.temp_list) = 0
        /\ SpecialRollup(da.dataset) \in DOMAIN reports)
       => /\ reports' = reports
          /\ da'.dataframe_list
                = Append(da.dataframe_list, reports[ShadingRollup(da.dataset)])
          /\ da'.dataframe_list_special
                = Append(da.dataframe_list_special, reports[SpecialRollup(da.dataset)])
          /\ da'.bad_data = da.bad_data]_vars

\* a dataset has had its rows read from the rollups of the run before
C21_WitnessRollupRead ==
    /\ pl_runs = 2
    /\ da.status = "datasets"
    /\ \E k \in DOMAIN da.dataframe_list :
          \E dataset \in DatasetDirs(fs_dirs, rs_data_name) :
             /\ TempDirs(fs_dirs, dataset) = {}
             /\ ShadingRollup(dataset) \in DOMAIN reports
             /\ da.dataframe_list[k] = reports[ShadingRollup(dataset)]
             /\ Len(da.dataframe_list[k]) > 0

\* the netlists of the tree
NetlistsOfTree == { p \in DOMAIN fs_files : EndsWith(p.name, <<"c", "i", "r">>) }

\* run_simulations of a run after the first scans the tree and returns its commands
ScannedAgain ==
    /\ pl_runs > 1
    /\ pl_pc.stage = "start"
    /\ pl_pc'.stage # "start"

\* C23: if data_analysis deleted a corrupt result file, the next run_simulations
\* over the same tree queues the netlist of that job again, once, and queues no
\* netlist whose result file survived.
C23_DeletedJobsQueuedAgain ==
    [][ScannedAgain =>
          \A p \in NetlistsOfTree :
             /\ RawPath(p) \in da.deleted => CountIn(rs_commands', p) = 1
             /\ (Exists(fs_files, RawPath(p)) /\ RawPath(p) \notin da.deleted)
                    => CountIn(rs_commands', p) = 0]_vars

\* C23, the part that holds: a deleted result file that is still absent has its
\* netlist queued once, and no netlist is queued whose result file is in the tree
C23_AbsentResultsQueuedAgain ==
    [][ScannedAgain =>
          \A p \in NetlistsOfTree :
             /\ (RawPath(p) \in da.deleted /\ ~Exists(fs_files, RawPath(p)))
                    => CountIn(rs_commands', p) = 1
             /\ Exists(fs_files, RawPath(p)) => CountIn(rs_commands', p) = 0]_vars

\* the second run_simulations has queued the netlist of a result file that the
\* data_analysis before it deleted
C23_WitnessQueuedAgain ==
    /\ pl_runs = 2
    /\ pl_pc.stage = "spawn"
    /\ \E k \in DOMAIN rs_commands : RawPath(rs_commands[k]) \in da.deleted

\* C29: in the reports of one data_analysis invocation no two distinct result
\* files share a Solar Panel ID, the rows read from the rollups of a previous
\* run included.
C29_NoSharedPanelId ==
    \A f, g \in FramesHeld : f.id = g.id => f.file = g.file

\* C29, the part that holds: a parsed result file gets the next ID, counted from
\* 1 in the order of processing, and a corrupt file consumes none
C29_IdsInProcessingOrder ==
    [][da'.nread = da.nread + 1 =>
          IF da'.verdict = "parsed"
          THEN /\ da'.cell_identifier = da.cell_identifier + 1
               /\ \E f \in { Frame(da'.read, da.cell_identifier) } :
                     \/ (Len(da'.gigantor) = Len(da.gigantor) + 1
                           /\ da'.gigantor[Len(da'.gigantor)] = f)
                     \/ (Len(da'.specialdf) = Len(da.specialdf) + 1
                           /\ da'.specialdf[Len(da'.specialdf)] = f)
               /\ da.cell_identifier = da.nread - Cardinality(da.deleted) + 1
          ELSE /\ da'.cell_identifier = da.cell_identifier
               /\ da'.gigantor = da.gigantor
               /\ da'.specialdf = da.specialdf]_vars

=============================================================================
